---- MODULE Spec2Model ----
(***************************************************************************)
(* Inverted-index build (src/indexer/run.py) and the TSV query engine      *)
(* (src/search_cli/run.py) of the recipe search pipeline.                  *)
(*                                                                         *)
(* Text is a sequence of one-character strings.  Real numbers are kept in  *)
(* fixed point: idf in thousandths, BM25 scores in millionths, cosine      *)
(* similarities in thousandths.  Numeric recipe attributes are whole       *)
(* numbers.  The snippet of a result (a pure function of the document      *)
(* title and the query terms) is not carried in the result tuples.         *)
(***************************************************************************)
EXTENDS Integers, Sequences, FiniteSets, TLC

VARIABLES
  input_file,    \* indexer: the lines of the JSONL build input
  line_num,      \* indexer: number of input lines consumed by build_index
  build_pc,      \* indexer: position inside build_index
  indexer,       \* indexer: fields of the RobustRecipeIndexer object
  index_dir,     \* indexer: the three files written by _save_index
  corpus,        \* searcher: lines of data/normalized/recipes.jsonl
  searcher,      \* searcher: fields of the RobustRecipeSearcher object
  request,       \* searcher: query and filters of the client request
  last,          \* searcher: the last call and what it returned
  f_in,          \* filter engine: record and filter sets under evaluation
  f_out,         \* filter engine: outcome of _apply_filters on f_in
  scan_state,    \* filter-only path: position of the generic scan loop
  seeds,         \* crawler: the seeds phase and its deduplicate_urls generators
  frontier,      \* crawler: fields of the Frontier object and the calls made on it
  threads        \* HTTP server: request threads sharing the one searcher

vars == <<input_file, line_num, build_pc, indexer, index_dir,
          corpus, searcher, request, last, f_in, f_out, scan_state, seeds, frontier, threads>>

----------------------------------------------------------------------------
(* Bounds *)

MaxLines == 3      \* lines of a build input / corpus
MaxK == 1          \* largest page size k of a search call
MaxOffset == 1     \* largest offset of a search call
MaxQueries == 1    \* scored searches counted in stats before the session ends
MaxTf == 3         \* largest term frequency compared in a BM25 term score
MaxFieldLength == 4 \* largest field length compared in a BM25 term score

----------------------------------------------------------------------------
(* Characters and strings *)

LowerLetters == <<"a", "b", "c", "d", "e", "f", "g", "h", "i", "j", "k", "l", "m", "n", "o", "p", "q", "r", "s", "t", "u", "v", "w", "x", "y", "z">>
UpperLetters == <<"A", "B", "C", "D", "E", "F", "G", "H", "I", "J", "K", "L", "M", "N", "O", "P", "Q", "R", "S", "T", "U", "V", "W", "X", "Y", "Z">>
Digits == <<"0", "1", "2", "3", "4", "5", "6", "7", "8", "9">>

Range(s) == {s[i] : i \in 1..Len(s)}

IsLower(c) == \E i \in 1..26 : LowerLetters[i] = c
IsUpper(c) == \E i \in 1..26 : UpperLetters[i] = c
IsAsciiLetter(c) == IsLower(c) \/ IsUpper(c)
IsDigit(c) == \E i \in 1..10 : Digits[i] = c
\* \w of the re module for the characters used here
IsWordChar(c) == IsAsciiLetter(c) \/ IsDigit(c) \/ c = "_"
\* \s of the re module
IsSpace(c) == c \in {" ", "\t", "\n", "\r"}

LowerChar(c) ==
  IF IsUpper(c) THEN LowerLetters[CHOOSE i \in 1..26 : UpperLetters[i] = c] ELSE c
\* str.lower()
lower(s) == [i \in 1..Len(s) |-> LowerChar(s[i])]

\* code point order of the characters used here, for str comparison
CharOrder == <<"\t", "\n", "\r", " ", "#", "&", "-", ".", "/", ":", ";">> \o Digits
             \o UpperLetters \o <<"_">> \o LowerLetters
CharCode(c) == CHOOSE i \in 1..Len(CharOrder) : CharOrder[i] = c

RECURSIVE StrLess(_, _)
\* a < b on str
StrLess(a, b) ==
  IF b = <<>> THEN FALSE
  ELSE IF a = <<>> THEN TRUE
  ELSE IF a[1] = b[1] THEN StrLess(Tail(a), Tail(b))
  ELSE CharCode(a[1]) < CharCode(b[1])

RECURSIVE LStrip(_)
LStrip(s) == IF s # <<>> /\ IsSpace(s[1]) THEN LStrip(Tail(s)) ELSE s
RECURSIVE RStrip(_)
RStrip(s) == IF s # <<>> /\ IsSpace(s[Len(s)]) THEN RStrip(SubSeq(s, 1, Len(s) - 1)) ELSE s
\* str.strip()
strip(s) == RStrip(LStrip(s))

RECURSIVE join(_, _)
\* sep.join(parts)
join(sep, parts) ==
  IF parts = <<>> THEN <<>>
  ELSE IF Len(parts) = 1 THEN parts[1]
  ELSE parts[1] \o sep \o join(sep, Tail(parts))

\* needle in haystack, on str
IsSubstring(needle, hay) ==
  \E i \in 1..(Len(hay) - Len(needle) + 1) : SubSeq(hay, i, i + Len(needle) - 1) = needle

\* sorted(S) for a set of str
RECURSIVE SortedStrs(_)
SortedStrs(S) ==
  IF S = {} THEN <<>>
  ELSE LET m == CHOOSE x \in S : \A y \in S \ {x} : StrLess(x, y)
       IN <<m>> \o SortedStrs(S \ {m})

----------------------------------------------------------------------------
(* Tokenizer: RobustRecipeIndexer.tokenize and RobustRecipeSearcher.tokenize *)
(* (the two methods are the same text)                                       *)

stopwords ==
  {
    <<"a">>, <<"a","d","d">>, <<"a","d","d","e","d">>, <<"a","d","d","i","n","g">>,
    <<"a","l","l","o","w">>, <<"a","l","l","o","w","e","d">>, <<"a","l","l","o","w","i","n","g">>,
    <<"a","m">>, <<"a","n">>, <<"a","n","d">>, <<"a","p","p","e","a","r">>,
    <<"a","p","p","e","a","r","e","d">>, <<"a","p","p","e","a","r","i","n","g">>, <<"a","r","e">>,
    <<"a","s","k">>, <<"a","s","k","e","d">>, <<"a","s","k","i","n","g">>, <<"a","t">>,
    <<"b","e">>, <<"b","e","e","n">>, <<"b","e","g","a","n">>, <<"b","e","g","i","n">>,
    <<"b","e","g","i","n","n","i","n","g">>, <<"b","e","g","u","n">>, <<"b","e","i","n","g">>,
    <<"b","o","u","g","h","t">>, <<"b","r","e","a","k">>, <<"b","r","e","a","k","i","n","g">>,
    <<"b","r","i","n","g">>, <<"b","r","i","n","g","i","n","g">>, <<"b","r","o","k","e">>,
    <<"b","r","o","k","e","n">>, <<"b","r","o","u","g","h","t">>, <<"b","u","i","l","d">>,
    <<"b","u","i","l","d","i","n","g">>, <<"b","u","i","l","t">>, <<"b","u","t">>, <<"b","u","y">>,
    <<"b","u","y","i","n","g">>, <<"b","y">>, <<"c","a","l","l">>, <<"c","a","l","l","e","d">>,
    <<"c","a","l","l","i","n","g">>, <<"c","a","m","e">>, <<"c","a","n">>, <<"c","a","t","c","h">>,
    <<"c","a","t","c","h","i","n","g">>, <<"c","a","u","g","h","t">>, <<"c","h","o","o","s","e">>,
    <<"c","h","o","o","s","i","n","g">>, <<"c","h","o","s","e">>, <<"c","h","o","s","e","n">>,
    <<"c","l","o","s","e">>, <<"c","l","o","s","e","d">>, <<"c","l","o","s","i","n","g">>,
    <<"c","o","m","e">>, <<"c","o","m","i","n","g">>, <<"c","o","n","s","i","d","e","r">>,
    <<"c","o","n","s","i","d","e","r","e","d">>, <<"c","o","n","s","i","d","e","r","i","n","g">>,
    <<"c","o","n","t","i","n","u","e">>, <<"c","o","n","t","i","n","u","e","d">>,
    <<"c","o","n","t","i","n","u","i","n","g">>, <<"c","o","u","l","d">>,
    <<"c","r","e","a","t","e">>, <<"c","r","e","a","t","e","d">>,
    <<"c","r","e","a","t","i","n","g">>, <<"c","u","t">>, <<"c","u","t","t","i","n","g">>,
    <<"d","a","r","e">>, <<"d","e","a","l">>, <<"d","e","a","l","i","n","g">>,
    <<"d","e","a","l","t">>, <<"d","e","c","i","d","e">>, <<"d","e","c","i","d","e","d">>,
    <<"d","e","c","i","d","i","n","g">>, <<"d","i","d">>, <<"d","i","e">>, <<"d","i","e","d">>,
    <<"d","o">>, <<"d","o","e","s">>, <<"d","o","i","n","g">>, <<"d","r","o","p">>,
    <<"d","r","o","p","p","e","d">>, <<"d","r","o","p","p","i","n","g">>, <<"d","y","i","n","g">>,
    <<"e","x","p","e","c","t">>, <<"e","x","p","e","c","t","e","d">>,
    <<"e","x","p","e","c","t","i","n","g">>, <<"f","a","l","l">>, <<"f","a","l","l","e","n">>,
    <<"f","a","l","l","i","n","g">>, <<"f","e","e","l">>, <<"f","e","e","l","i","n","g">>,
    <<"f","e","l","l">>, <<"f","e","l","t">>, <<"f","i","n","d">>, <<"f","i","n","d","i","n","g">>,
    <<"f","o","l","l","o","w">>, <<"f","o","l","l","o","w","e","d">>,
    <<"f","o","l","l","o","w","i","n","g">>, <<"f","o","r">>, <<"f","o","u","n","d">>,
    <<"g","a","v","e">>, <<"g","e","t">>, <<"g","e","t","t","i","n","g">>, <<"g","i","v","e">>,
    <<"g","i","v","e","n">>, <<"g","i","v","i","n","g">>, <<"g","o">>, <<"g","o","i","n","g">>,
    <<"g","o","n","e">>, <<"g","o","t">>, <<"g","r","e","w">>, <<"g","r","o","w">>,
    <<"g","r","o","w","i","n","g">>, <<"g","r","o","w","n">>, <<"h","a","d">>, <<"h","a","s">>,
    <<"h","a","v","e">>, <<"h","a","v","i","n","g">>, <<"h","e">>, <<"h","e","a","r">>,
    <<"h","e","a","r","d">>, <<"h","e","a","r","i","n","g">>, <<"h","e","l","d">>,
    <<"h","e","l","p">>, <<"h","e","l","p","e","d">>, <<"h","e","l","p","i","n","g">>,
    <<"h","e","r">>, <<"h","i","m">>, <<"h","i","s">>, <<"h","o","l","d">>,
    <<"h","o","l","d","i","n","g">>, <<"i">>, <<"i","n">>, <<"i","n","c","l","u","d","e">>,
    <<"i","n","c","l","u","d","e","d">>, <<"i","n","c","l","u","d","i","n","g">>, <<"i","s">>,
    <<"i","t">>, <<"i","t","s">>, <<"k","e","e","p">>, <<"k","e","e","p","i","n","g">>,
    <<"k","e","p","t">>, <<"k","i","l","l">>, <<"k","i","l","l","e","d">>,
    <<"k","i","l","l","i","n","g">>, <<"k","n","e","w">>, <<"k","n","o","w">>,
    <<"k","n","o","w","i","n","g">>, <<"k","n","o","w","n">>, <<"l","e","a","v","e">>,
    <<"l","e","a","v","i","n","g">>, <<"l","e","f","t">>, <<"l","e","t">>,
    <<"l","e","t","t","i","n","g">>, <<"l","o","s","e">>, <<"l","o","s","i","n","g">>,
    <<"l","o","s","t">>, <<"l","o","v","e">>, <<"l","o","v","e","d">>, <<"l","o","v","i","n","g">>,
    <<"m","a","d","e">>, <<"m","a","k","e">>, <<"m","a","k","i","n","g">>, <<"m","a","y">>,
    <<"m","e">>, <<"m","e","e","t">>, <<"m","e","e","t","i","n","g">>, <<"m","e","t">>,
    <<"m","i","g","h","t">>, <<"m","o","v","e">>, <<"m","o","v","e","d">>,
    <<"m","o","v","i","n","g">>, <<"m","u","s","t">>, <<"m","y">>, <<"n","e","e","d">>,
    <<"o","f">>, <<"o","f","f","e","r">>, <<"o","f","f","e","r","e","d">>,
    <<"o","f","f","e","r","i","n","g">>, <<"o","n">>, <<"o","p","e","n">>,
    <<"o","p","e","n","e","d">>, <<"o","p","e","n","i","n","g">>, <<"o","r">>,
    <<"o","u","g","h","t">>, <<"o","u","r">>, <<"p","a","i","d">>, <<"p","a","s","s">>,
    <<"p","a","s","s","e","d">>, <<"p","a","s","s","i","n","g">>, <<"p","a","y">>,
    <<"p","a","y","i","n","g">>, <<"p","l","a","y">>, <<"p","l","a","y","e","d">>,
    <<"p","l","a","y","i","n","g">>, <<"p","r","o","v","e">>, <<"p","r","o","v","e","d">>,
    <<"p","r","o","v","i","d","e">>, <<"p","r","o","v","i","d","e","d">>,
    <<"p","r","o","v","i","d","i","n","g">>, <<"p","r","o","v","i","n","g">>, <<"p","u","l","l">>,
    <<"p","u","l","l","e","d">>, <<"p","u","l","l","i","n","g">>, <<"p","u","t">>,
    <<"p","u","t","t","i","n","g">>, <<"r","a","i","s","e">>, <<"r","a","i","s","e","d">>,
    <<"r","a","i","s","i","n","g">>, <<"r","a","n">>, <<"r","e","a","c","h">>,
    <<"r","e","a","c","h","e","d">>, <<"r","e","a","c","h","i","n","g">>, <<"r","e","a","d">>,
    <<"r","e","a","d","i","n","g">>, <<"r","e","m","a","i","n">>,
    <<"r","e","m","a","i","n","e","d">>, <<"r","e","m","a","i","n","i","n","g">>,
    <<"r","e","m","e","m","b","e","r">>, <<"r","e","m","e","m","b","e","r","e","d">>,
    <<"r","e","m","e","m","b","e","r","i","n","g">>, <<"r","e","p","o","r","t">>,
    <<"r","e","p","o","r","t","e","d">>, <<"r","e","p","o","r","t","i","n","g">>,
    <<"r","e","q","u","i","r","e">>, <<"r","e","q","u","i","r","e","d">>,
    <<"r","e","q","u","i","r","i","n","g">>, <<"r","i","s","e">>, <<"r","i","s","e","n">>,
    <<"r","i","s","i","n","g">>, <<"r","o","s","e">>, <<"r","u","n">>,
    <<"r","u","n","n","i","n","g">>, <<"s","a","t">>, <<"s","a","w">>, <<"s","e","e">>,
    <<"s","e","e","i","n","g">>, <<"s","e","e","m">>, <<"s","e","e","m","e","d">>,
    <<"s","e","e","m","i","n","g">>, <<"s","e","e","n">>, <<"s","e","l","l">>,
    <<"s","e","l","l","i","n","g">>, <<"s","e","n","d">>, <<"s","e","n","d","i","n","g">>,
    <<"s","e","n","t">>, <<"s","e","r","v","e">>, <<"s","e","r","v","e","d">>,
    <<"s","e","r","v","i","n","g">>, <<"s","e","t">>, <<"s","e","t","t","i","n","g">>,
    <<"s","h","a","l","l">>, <<"s","h","e">>, <<"s","h","o","u","l","d">>, <<"s","h","o","w">>,
    <<"s","h","o","w","e","d">>, <<"s","h","o","w","i","n","g">>, <<"s","i","t">>,
    <<"s","i","t","t","i","n","g">>, <<"s","o","l","d">>, <<"s","p","e","a","k">>,
    <<"s","p","e","a","k","i","n","g">>, <<"s","p","e","n","d">>,
    <<"s","p","e","n","d","i","n","g">>, <<"s","p","e","n","t">>, <<"s","p","o","k","e">>,
    <<"s","p","o","k","e","n">>, <<"s","t","a","n","d">>, <<"s","t","a","n","d","i","n","g">>,
    <<"s","t","a","r","t">>, <<"s","t","a","r","t","e","d">>, <<"s","t","a","r","t","i","n","g">>,
    <<"s","t","a","y">>, <<"s","t","a","y","e","d">>, <<"s","t","a","y","i","n","g">>,
    <<"s","t","o","o","d">>, <<"s","t","o","p">>, <<"s","t","o","p","p","e","d">>,
    <<"s","t","o","p","p","i","n","g">>, <<"s","u","g","g","e","s","t">>,
    <<"s","u","g","g","e","s","t","e","d">>, <<"s","u","g","g","e","s","t","i","n","g">>,
    <<"t","a","k","e">>, <<"t","a","k","e","n">>, <<"t","a","k","i","n","g">>, <<"t","e","l","l">>,
    <<"t","e","l","l","i","n","g">>, <<"t","h","a","t">>, <<"t","h","e">>, <<"t","h","e","i","r">>,
    <<"t","h","e","m">>, <<"t","h","e","s","e">>, <<"t","h","e","y">>, <<"t","h","i","n","k">>,
    <<"t","h","i","n","k","i","n","g">>, <<"t","h","i","s">>, <<"t","h","o","s","e">>,
    <<"t","h","o","u","g","h","t">>, <<"t","h","r","e","w">>, <<"t","h","r","o","w">>,
    <<"t","h","r","o","w","i","n","g">>, <<"t","h","r","o","w","n">>, <<"t","o">>,
    <<"t","o","l","d">>, <<"t","o","o","k">>, <<"t","r","i","e","d">>, <<"t","r","y">>,
    <<"t","r","y","i","n","g">>, <<"t","u","r","n">>, <<"t","u","r","n","e","d">>,
    <<"t","u","r","n","i","n","g">>, <<"u","s">>, <<"u","s","e","d">>, <<"w","a","i","t">>,
    <<"w","a","i","t","e","d">>, <<"w","a","i","t","i","n","g">>, <<"w","a","l","k">>,
    <<"w","a","l","k","e","d">>, <<"w","a","l","k","i","n","g">>, <<"w","a","s">>, <<"w","e">>,
    <<"w","e","n","t">>, <<"w","e","r","e">>, <<"w","i","l","l">>, <<"w","i","n">>,
    <<"w","i","n","n","i","n","g">>, <<"w","i","t","h">>, <<"w","o","n">>, <<"w","o","r","k">>,
    <<"w","o","r","k","e","d">>, <<"w","o","r","k","i","n","g">>, <<"w","o","u","l","d">>,
    <<"w","r","i","t","e">>, <<"w","r","i","t","i","n","g">>, <<"w","r","i","t","t","e","n">>,
    <<"w","r","o","t","e">>, <<"y","o","u">>, <<"y","o","u","r">>
  }

IsEntityChar(c) == IsAsciiLetter(c) \/ IsDigit(c) \/ c = "#"

RECURSIVE EntityRunEnd(_, _)
\* last index of the run of [a-zA-Z0-9#] that starts at i (i - 1 when empty)
EntityRunEnd(s, i) ==
  IF i <= Len(s) /\ IsEntityChar(s[i]) THEN EntityRunEnd(s, i + 1) ELSE i - 1

RECURSIVE StripEntities(_, _)
\* re.sub(r'&[a-zA-Z0-9#]+;', ' ', text), scanning from index i
StripEntities(s, i) ==
  IF i > Len(s) THEN <<>>
  ELSE IF s[i] = "&"
    THEN LET e == EntityRunEnd(s, i + 1)
         IN IF e >= i + 1 /\ e + 1 <= Len(s) /\ s[e + 1] = ";"
              THEN <<" ">> \o StripEntities(s, e + 2)
              ELSE <<s[i]>> \o StripEntities(s, i + 1)
    ELSE <<s[i]>> \o StripEntities(s, i + 1)

RECURSIVE CollapseSpace(_, _)
\* re.sub(r'\s+', ' ', text), scanning from index i
CollapseSpace(s, i) ==
  IF i > Len(s) THEN <<>>
  ELSE IF IsSpace(s[i])
    THEN IF i > 1 /\ IsSpace(s[i - 1]) THEN CollapseSpace(s, i + 1)
         ELSE <<" ">> \o CollapseSpace(s, i + 1)
    ELSE <<s[i]>> \o CollapseSpace(s, i + 1)

RECURSIVE WordRunEnd(_, _)
WordRunEnd(s, i) ==
  IF i <= Len(s) /\ IsWordChar(s[i]) THEN WordRunEnd(s, i + 1) ELSE i - 1

RECURSIVE FindWords(_, _)
\* re.findall(r'\b[a-zA-Z]+\b', text): a run of word characters is matched
\* only when it is bounded by \b on both sides and holds letters only
FindWords(s, i) ==
  IF i > Len(s) THEN <<>>
  ELSE IF ~IsWordChar(s[i]) THEN FindWords(s, i + 1)
  ELSE LET e == WordRunEnd(s, i)
           w == SubSeq(s, i, e)
       IN (IF \A j \in 1..Len(w) : IsAsciiLetter(w[j]) THEN <<w>> ELSE <<>>)
          \o FindWords(s, e + 1)

KeepWord(word) == word \notin stopwords /\ Len(word) > 1

tokenize(text) ==
  IF text = <<>> THEN <<>>
  ELSE LET cleaned == strip(CollapseSpace(StripEntities(text, 1), 1))
       IN IF cleaned = <<>> THEN <<>>
          ELSE SelectSeq(FindWords(lower(cleaned), 1), KeepWord)

----------------------------------------------------------------------------
(* math.log in thousandths: LnTable[n][d] = round(1000 * ln(n / d)) *)

LnTable ==
  <<
  <<0, -693, -1099, -1386, -1609, -1792, -1946, -2079, -2197, -2303, -2398, -2485, -2565, -2639, -2708, -2773, -2833, -2890>>,
  <<693, 0, -405, -693, -916, -1099, -1253, -1386, -1504, -1609, -1705, -1792, -1872, -1946, -2015, -2079, -2140, -2197>>,
  <<1099, 405, 0, -288, -511, -693, -847, -981, -1099, -1204, -1299, -1386, -1466, -1540, -1609, -1674, -1735, -1792>>,
  <<1386, 693, 288, 0, -223, -405, -560, -693, -811, -916, -1012, -1099, -1179, -1253, -1322, -1386, -1447, -1504>>,
  <<1609, 916, 511, 223, 0, -182, -336, -470, -588, -693, -788, -875, -956, -1030, -1099, -1163, -1224, -1281>>,
  <<1792, 1099, 693, 405, 182, 0, -154, -288, -405, -511, -606, -693, -773, -847, -916, -981, -1041, -1099>>
  >>

Log(n, d) == LnTable[n][d]

----------------------------------------------------------------------------
(* JSON values of a recipe attribute *)

Num(n) == [t |-> "num", v |-> n]          \* a JSON number
NumStr(n) == [t |-> "numstr", v |-> n]    \* a string that float() accepts, "250"
Text == [t |-> "text", v |-> 0]           \* a string that float() rejects, "low"
Null == [t |-> "null", v |-> 0]           \* JSON null
Absent == [t |-> "absent", v |-> 0]       \* the key is not in the object

NoNutrition ==
  [calories |-> Absent, protein |-> Absent, carbs |-> Absent, carbohydrates |-> Absent,
   fat |-> Absent, fiber |-> Absent, sugar |-> Absent, sodium |-> Absent]
NoRatings ==
  [average |-> Absent, rating |-> Absent, score |-> Absent,
   review_count |-> Absent, count |-> Absent]
NoTimes == [total |-> Absent, prep |-> Absent, cook |-> Absent]

\* words and strings of the recipe pool
w_garlic == <<"g","a","r","l","i","c">>
w_bread == <<"b","r","e","a","d">>
w_soup == <<"s","o","u","p">>
w_cake == <<"c","a","k","e">>
w_tofu == <<"t","o","f","u">>
w_the == <<"t","h","e">>
w_bake == <<"b","a","k","e">>
w_italian == <<"i","t","a","l","i","a","n">>
s_Garlic_Bread == <<"G","a","r","l","i","c"," ","B","r","e","a","d">>
s_Garlic_Soup == <<"G","a","r","l","i","c"," ","&","a","m","p",";"," ","S","o","u","p">>
s_Cake == <<"C","a","k","e"," ","4","u">>
s_Italian == <<"I","t","a","l","i","a","n">>
s_Bake_the_bread == <<"B","a","k","e"," ","t","h","e"," ","b","r","e","a","d">>
s_url == <<"h","t","t","p",":","/","/","r",".","c","o","m","/","r">>
s_12_slices == <<"1","2"," ","s","l","i","c","e","s">>
s_img == <<"a",".","j","p","g">>

\* a recipe object of the normalized corpus with every optional key missing
BlankRecipe ==
  [kind |-> "recipe", id |-> <<>>, url |-> <<>>, title |-> <<>>, description |-> <<>>,
   ingredients |-> <<>>, instructions |-> <<>>,
   times |-> [t |-> "absent", d |-> NoTimes],
   cuisine |-> <<>>, category |-> <<>>, tools |-> <<>>, keywords |-> <<>>,
   yield |-> [t |-> "absent", s |-> <<>>],
   author |-> <<>>, difficulty |-> <<>>, image |-> <<>>, date_published |-> <<>>,
   nutrition |-> [t |-> "absent", d |-> NoNutrition],
   ratings |-> [t |-> "absent", d |-> NoRatings]]

\* garlic bread: every attribute present
R1 ==
  [BlankRecipe EXCEPT
     !.id = <<"1">>, !.url = s_url, !.title = s_Garlic_Bread,
     !.ingredients = <<w_garlic, w_bread>>, !.instructions = <<s_Bake_the_bread>>,
     !.times = [t |-> "dict", d |-> [total |-> Num(30), prep |-> Num(10), cook |-> Num(20)]],
     !.cuisine = <<s_Italian>>, !.yield = [t |-> "str", s |-> s_12_slices],
     !.image = s_img, !.difficulty = <<"e","a","s","y">>,
     !.nutrition = [t |-> "dict", d |-> [NoNutrition EXCEPT !.calories = NumStr(250),
                                                           !.sodium = Num(5)]],
     !.ratings = [t |-> "dict", d |-> [NoRatings EXCEPT !.rating = Num(4),
                                                       !.review_count = Num(10)]]]

\* garlic soup, as the parser emits a page without nutrition and rating data
R2 ==
  [BlankRecipe EXCEPT
     !.id = <<"2">>, !.url = s_url, !.title = s_Garlic_Soup,
     !.ingredients = <<w_garlic>>,
     !.times = [t |-> "dict", d |-> [total |-> Num(60), prep |-> Num(0), cook |-> Num(0)]],
     !.cuisine = <<s_Italian>>,
     !.nutrition = [t |-> "null", d |-> NoNutrition],
     !.ratings = [t |-> "null", d |-> NoRatings]]

\* the text of R1 under another id, with few attributes
R3 ==
  [BlankRecipe EXCEPT
     !.id = <<"1","0">>, !.url = s_url, !.title = s_Garlic_Bread,
     !.ingredients = <<w_garlic, w_bread>>, !.instructions = <<s_Bake_the_bread>>,
     !.times = [t |-> "dict", d |-> [NoTimes EXCEPT !.total = Num(45)]]]

\* a cake without garlic and without optional attributes
R4 ==
  [BlankRecipe EXCEPT
     !.id = <<"4">>, !.url = s_url, !.title = s_Cake, !.ingredients = <<w_cake, w_cake>>]

\* a record whose text holds no term
REmpty == [BlankRecipe EXCEPT !.id = <<"5">>, !.title = w_the]
\* a record without id
RNoId == [BlankRecipe EXCEPT !.title = w_tofu]
\* a line that json.loads rejects
BadLine == [BlankRecipe EXCEPT !.kind = "malformed"]
\* a record whose title holds a tab
RTab == [BlankRecipe EXCEPT !.id = <<"7">>, !.url = s_url,
                            !.title = w_tofu \o <<"\t">> \o w_bread,
                            !.ingredients = <<w_tofu>>]

RecipePool == {R1, R2, R3, R4}
\* a second record with the id of R1
RDup == [R2 EXCEPT !.id = <<"1">>]

LinePool == RecipePool \cup {REmpty, RNoId, BadLine, RTab, RDup}

\* sequences of at most n distinct members of a pool
Lines(pool, n) ==
  UNION {{s \in [1..k -> pool] : \A i, j \in 1..k : i # j => s[i] # s[j]} : k \in 1..n}

----------------------------------------------------------------------------
(* RobustRecipeIndexer *)

NewIndexer ==
  [terms |-> <<>>, postings |-> <<>>, doc_metadata |-> <<>>, total_docs |-> 0,
   stats |-> [total_terms |-> 0, total_postings |-> 0,
              processing_errors |-> 0, empty_docs |-> 0]]

\* Counter(tokens)[term]
Count(term, tokens) == Cardinality({i \in 1..Len(tokens) : tokens[i] = term})

\* df of a term while the index is accumulated (0 for a term not seen yet)
DfOf(terms, term) == IF term \in DOMAIN terms THEN terms[term][1] ELSE 0

IndexFieldTerms(terms, tokens) ==
  [term \in DOMAIN terms \cup Range(tokens) |->
     IF term \in Range(tokens) THEN <<DfOf(terms, term) + 1>> ELSE terms[term]]

_index_field(ix, doc_id, field, tokens) ==
  IF tokens = <<>> THEN ix
  ELSE [ix EXCEPT
          !.terms = IndexFieldTerms(ix.terms, tokens),
          !.postings =
            [term \in DOMAIN ix.postings \cup Range(tokens) |->
               IF term \in Range(tokens)
                 THEN Append(IF term \in DOMAIN ix.postings THEN ix.postings[term] ELSE <<>>,
                             <<field, doc_id, Count(term, tokens)>>)
                 ELSE ix.postings[term]]]

Truthy(s) == s # <<>>

_index_recipe(ix, recipe) ==
  LET doc_id == recipe.id
      title == strip(recipe.title)
      ingredients == join(<<" ">>, SelectSeq(recipe.ingredients, Truthy))
      instructions == join(<<" ">>, SelectSeq(recipe.instructions, Truthy))
      title_tokens == tokenize(title)
      ingredients_tokens == tokenize(ingredients)
      instructions_tokens == tokenize(instructions)
      total_tokens == Len(title_tokens) + Len(ingredients_tokens) + Len(instructions_tokens)
      meta == [url |-> recipe.url, title |-> title, len_title |-> Len(title_tokens),
               len_ing |-> Len(ingredients_tokens), len_instr |-> Len(instructions_tokens)]
      withMeta == [ix EXCEPT !.doc_metadata =
                     [d \in DOMAIN ix.doc_metadata \cup {doc_id} |->
                        IF d = doc_id THEN meta ELSE ix.doc_metadata[d]]]
  IN IF doc_id = <<>>
       THEN [ix EXCEPT !.stats.processing_errors = @ + 1]
     ELSE IF total_tokens = 0
       THEN [ix EXCEPT !.stats.empty_docs = @ + 1]
     ELSE _index_field(
            _index_field(
              _index_field(withMeta, doc_id, "title", title_tokens),
              doc_id, "ingredients", ingredients_tokens),
            doc_id, "instructions", instructions_tokens)

\* the read loop with an empty document counted as a processing error
ProcessLineEmptyAsError(ix, line) ==
  IF line.kind = "malformed"
    THEN [ix EXCEPT !.stats.processing_errors = @ + 1]
  ELSE IF _index_recipe(ix, line).stats.empty_docs > ix.stats.empty_docs
    THEN [ix EXCEPT !.stats.processing_errors = @ + 1]
    ELSE _index_recipe(ix, line)
\* the read loop with a JSON decode error skipped without a count
ProcessLineSilent(ix, line) ==
  IF line.kind = "malformed" THEN ix ELSE _index_recipe(ix, line)
\* one iteration of the read loop of build_index
ProcessLine(ix, line) ==
  IF line.kind = "malformed"
    THEN [ix EXCEPT !.stats.processing_errors = @ + 1]
    ELSE _index_recipe(ix, line)

RECURSIVE SumLenOver(_, _)
SumLenOver(f, D) ==
  IF D = {} THEN 0
  ELSE LET x == CHOOSE y \in D : TRUE IN Len(f[x]) + SumLenOver(f, D \ {x})
\* sum(len(postings) for postings in self.postings.values())
SumLen(f) == SumLenOver(f, DOMAIN f)

\* build_index after the read loop: the final statistics
FinalStatistics(ix) ==
  [ix EXCEPT !.total_docs = Cardinality(DOMAIN ix.doc_metadata),
             !.stats.total_terms = Cardinality(DOMAIN ix.terms),
             !.stats.total_postings = SumLen(ix.postings)]

\* _calculate_idf with the document count smoothed by one
CalculateIdfSmoothed(ix) ==
  IF ix.total_docs = 0 THEN ix
  ELSE [ix EXCEPT !.terms =
          [term \in DOMAIN ix.terms |->
             <<ix.terms[term][1], Log(ix.total_docs + 1, ix.terms[term][1])>>]]

_calculate_idf(ix) ==
  IF ix.total_docs = 0 THEN ix
  ELSE [ix EXCEPT !.terms =
          [term \in DOMAIN ix.terms |->
             <<ix.terms[term][1], Log(ix.total_docs, ix.terms[term][1])>>]]

RECURSIVE Concat(_)
Concat(seqs) == IF seqs = <<>> THEN <<>> ELSE seqs[1] \o Concat(Tail(seqs))

\* the title written as it is
KeepTabs(s) == s
ReplaceTabs(s) == [i \in 1..Len(s) |-> IF s[i] \in {"\t", "\n", "\r"} THEN " " ELSE s[i]]

\* the rows of the three files, without the header rows
\* str(n) of a non-negative integer
RECURSIVE IntStr(_)
IntStr(n) == IF n < 10 THEN <<Digits[n + 1]>> ELSE IntStr(n \div 10) \o <<Digits[(n % 10) + 1]>>

docmeta_header ==
  <<"d","o","c","I","d","\t","u","r","l","\t","t","i","t","l","e","\t",
    "l","e","n","_","t","i","t","l","e","\t","l","e","n","_","i","n","g","\t",
    "l","e","n","_","i","n","s","t","r","\n">>

\* one line of docmeta.tsv as _save_index writes it
DocmetaLine(doc_id, meta) ==
  join(<<"\t">>, <<doc_id, meta.url, ReplaceTabs(meta.title), IntStr(meta.len_title),
                   IntStr(meta.len_ing), IntStr(meta.len_instr)>>) \o <<"\n">>

index_files == {"terms.tsv", "postings.tsv", "docmeta.tsv"}

terms_header == <<"t","e","r","m","\t","d","f","\t","i","d","f","\n">>

postings_header ==
  <<"t","e","r","m","\t","f","i","e","l","d","\t","d","o","c","I","d","\t","t","f","\n">>

\* the characters of a field name
FieldChars(field) ==
  CASE field = "title" -> <<"t","i","t","l","e">>
    [] field = "ingredients" -> <<"i","n","g","r","e","d","i","e","n","t","s">>
    [] field = "instructions" -> <<"i","n","s","t","r","u","c","t","i","o","n","s">>

\* an idf in thousandths written with a decimal point, as the format :.6f writes a float
FloatStr(x) ==
  LET a == IF x < 0 THEN 0 - x ELSE x
      frac == a % 1000
  IN (IF x < 0 THEN <<"-">> ELSE <<>>) \o IntStr(a \div 1000) \o <<".">>
       \o <<Digits[(frac \div 100) + 1], Digits[((frac \div 10) % 10) + 1], Digits[(frac % 10) + 1]>>

\* one line of terms.tsv
TermsLine(term, entry) ==
  join(<<"\t">>, <<term, IntStr(entry[1]), FloatStr(entry[2])>>) \o <<"\n">>

\* one line of postings.tsv
PostingsLine(term, posting) ==
  join(<<"\t">>, <<term, FieldChars(posting[1]), posting[2], IntStr(posting[3])>>) \o <<"\n">>

\* the output directory after _save_index: the text of the three files
_save_index(ix) ==
  LET terms == SortedStrs(DOMAIN ix.terms)
      pterms == SortedStrs(DOMAIN ix.postings)
      docs == SortedStrs(DOMAIN ix.doc_metadata)
  IN [exists |-> TRUE,
      files |-> index_files,
      terms |-> terms_header \o
                Concat([i \in 1..Len(terms) |-> TermsLine(terms[i], ix.terms[terms[i]])]),
      postings |-> postings_header \o
                   Concat([i \in 1..Len(pterms) |->
                     Concat([j \in 1..Len(ix.postings[pterms[i]]) |->
                        PostingsLine(pterms[i], ix.postings[pterms[i]][j])])]),
      docmeta |-> docmeta_header \o
                  Concat([i \in 1..Len(docs) |-> DocmetaLine(docs[i], ix.doc_metadata[docs[i]])])]

\* the output directory made by the indexer's __init__, before any file is written
NoFiles == [exists |-> TRUE, files |-> {}, terms |-> <<>>, postings |-> <<>>, docmeta |-> <<>>]

----------------------------------------------------------------------------
(* build_index *)

Idle == <<>>

InitBuild ==
  /\ input_file \in Lines(LinePool, MaxLines)
  /\ line_num = 0
  /\ build_pc = "read"
  /\ indexer = NewIndexer
  /\ index_dir = NoFiles
  /\ corpus = Idle /\ searcher = Idle /\ request = Idle /\ last = Idle
  /\ f_in = Idle /\ f_out = Idle /\ scan_state = Idle
  /\ seeds = Idle /\ frontier = Idle /\ threads = Idle

\* the body of the read loop, for the next line
ReadLine ==
  /\ build_pc = "read"
  /\ line_num < Len(input_file)
  /\ indexer' = ProcessLine(indexer, input_file[line_num + 1])
  /\ line_num' = line_num + 1
  /\ UNCHANGED <<input_file, build_pc, index_dir, corpus, searcher, request, last, f_in, f_out, scan_state, seeds, frontier, threads>>

\* the input is exhausted: total_docs and the totals are fixed
EndOfInput ==
  /\ build_pc = "read"
  /\ line_num = Len(input_file)
  /\ indexer' = FinalStatistics(indexer)
  /\ build_pc' = "idf"
  /\ UNCHANGED <<input_file, line_num, index_dir, corpus, searcher, request, last, f_in, f_out, scan_state, seeds, frontier, threads>>

CalculateIdf ==
  /\ build_pc = "idf"
  /\ indexer' = _calculate_idf(indexer)
  /\ build_pc' = "save"
  /\ UNCHANGED <<input_file, line_num, index_dir, corpus, searcher, request, last, f_in, f_out, scan_state, seeds, frontier, threads>>

SaveIndex ==
  /\ build_pc = "save"
  /\ index_dir' = _save_index(indexer)
  /\ build_pc' = "done"
  /\ UNCHANGED <<input_file, line_num, indexer, corpus, searcher, request, last, f_in, f_out, scan_state, seeds, frontier, threads>>


----------------------------------------------------------------------------
(* Filter engine: RobustRecipeSearcher._apply_filters and its helpers.      *)
(* A filter set is a function from filter keys to values (numbers for the   *)
(* bounds, sequences of strings for the list filters, a boolean for         *)
(* has_image, a string for the dates).  A check is "ok", "reject" (the      *)
(* method returns False) or "raise" (the statement raises).                 *)

NoFilters == <<>>

\* filters.get(key) is truthy, for a numeric filter value
NumOn(filters, key) == key \in DOMAIN filters /\ filters[key] # 0
\* filters.get(key) is truthy, for a list or string filter value
SeqOn(filters, key) == key \in DOMAIN filters /\ filters[key] # <<>>
\* filters.get(key) is truthy, for a boolean filter value
BoolOn(filters, key) == key \in DOMAIN filters /\ filters[key]

_safe_float(value) == IF value.t \in {"num", "numstr"} THEN value.v ELSE 0
_safe_int(value) == IF value.t \in {"num", "numstr"} THEN value.v ELSE 0

\* d.get(key, 0) used in a comparison with a number: None and str raise TypeError
RawNumber(value) ==
  IF value.t = "absent" THEN [raise |-> FALSE, v |-> 0]
  ELSE IF value.t = "num" THEN [raise |-> FALSE, v |-> value.v]
  ELSE [raise |-> TRUE, v |-> 0]

\* filters.get(key) and value > filters[key], on a raw attribute
RawMax(filters, key, value) ==
  IF ~NumOn(filters, key) THEN "ok"
  ELSE IF RawNumber(value).raise THEN "raise"
  ELSE IF RawNumber(value).v > filters[key] THEN "reject" ELSE "ok"

\* filters.get(key) and value < filters[key], on a raw attribute
RawMin(filters, key, value) ==
  IF ~NumOn(filters, key) THEN "ok"
  ELSE IF RawNumber(value).raise THEN "raise"
  ELSE IF RawNumber(value).v < filters[key] THEN "reject" ELSE "ok"

\* filters.get(key) and x > filters[key], on a converted number
NumMax(filters, key, x) ==
  IF NumOn(filters, key) /\ x > filters[key] THEN "reject" ELSE "ok"
\* filters.get(key) and x < filters[key], on a converted number
NumMin(filters, key, x) ==
  IF NumOn(filters, key) /\ x < filters[key] THEN "reject" ELSE "ok"

LowerAll(strs) == [i \in 1..Len(strs) |-> lower(strs[i])]

\* not any(x.lower() in [y.lower() for y in recipe_list] for x in filters[key])
ListFilter(filters, key, recipe_list) ==
  IF ~SeqOn(filters, key) THEN "ok"
  ELSE IF \E i \in 1..Len(filters[key]) : lower(filters[key][i]) \in Range(LowerAll(recipe_list))
    THEN "ok" ELSE "reject"

\* not any(x.lower() in text for x in filters[key]), text already lowered
SubstringFilter(filters, key, text) ==
  IF ~SeqOn(filters, key) THEN "ok"
  ELSE IF \E i \in 1..Len(filters[key]) : IsSubstring(lower(filters[key][i]), text)
    THEN "ok" ELSE "reject"

\* f"{title} {description} {' '.join(xs)}".lower()
TextContent(recipe, xs) ==
  lower(recipe.title \o <<" ">> \o recipe.description \o <<" ">> \o join(<<" ">>, xs))

RatingRaw(ratings) ==
  IF ratings.average.t # "absent" THEN ratings.average
  ELSE IF ratings.rating.t # "absent" THEN ratings.rating
  ELSE ratings.score

ReviewCountRaw(ratings) ==
  IF ratings.review_count.t # "absent" THEN ratings.review_count ELSE ratings.count

rating_value(recipe) ==
  IF recipe.ratings.t \in {"dict", "absent"}
    THEN _safe_float(RatingRaw(recipe.ratings.d))
    ELSE _safe_float(Null)

review_count_value(recipe) ==
  IF recipe.ratings.t \in {"dict", "absent"}
    THEN _safe_int(ReviewCountRaw(recipe.ratings.d))
    ELSE 0

\* x.get(...) on the value of recipe_data.get(key, {})
DictGet(obj) == IF obj.t = "null" THEN "raise" ELSE "ok"

CarbsRaw(nutrition) ==
  IF nutrition.carbs.t # "absent" THEN nutrition.carbs ELSE nutrition.carbohydrates

RECURSIVE FirstDigit(_, _)
\* index of the first digit of s at or after i, 0 when there is none
FirstDigit(s, i) ==
  IF i > Len(s) THEN 0 ELSE IF IsDigit(s[i]) THEN i ELSE FirstDigit(s, i + 1)

DigitValue(c) == (CHOOSE i \in 1..10 : Digits[i] = c) - 1

RECURSIVE DigitsValue(_, _, _)
\* value of the run of digits of s that starts at i, given the value acc so far
DigitsValue(s, i, acc) ==
  IF i <= Len(s) /\ IsDigit(s[i]) THEN DigitsValue(s, i + 1, 10 * acc + DigitValue(s[i]))
  ELSE acc

\* re.search(r'(\d+(?:\.\d+)?)', str(yield_str)): the whole part of the first number
YieldMatch(yield_str) ==
  LET i == FirstDigit(yield_str, 1)
  IN IF i = 0 THEN [found |-> FALSE, v |-> 0]
     ELSE [found |-> TRUE, v |-> DigitsValue(yield_str, i, 0)]

YieldFilter(filters, recipe) ==
  IF recipe.yield.s # <<>> /\ (NumOn(filters, "min_yield") \/ NumOn(filters, "max_yield"))
    THEN LET m == YieldMatch(recipe.yield.s)
         IN IF m.found
              THEN IF NumOn(filters, "min_yield") /\ m.v < filters["min_yield"] THEN "reject"
                   ELSE IF NumOn(filters, "max_yield") /\ m.v > filters["max_yield"]
                     THEN "reject" ELSE "ok"
              ELSE IF NumOn(filters, "min_yield") THEN "reject" ELSE "ok"
    ELSE "ok"

\* the corpus carries date_published; the key read here is never present
publication_date(recipe) == <<>>

DateFilter(filters, recipe) ==
  IF SeqOn(filters, "min_publication_date") \/ SeqOn(filters, "max_publication_date")
    THEN IF publication_date(recipe) # <<>>
           THEN IF SeqOn(filters, "min_publication_date")
                     /\ StrLess(publication_date(recipe), filters["min_publication_date"])
                  THEN "reject"
                ELSE IF SeqOn(filters, "max_publication_date")
                     /\ StrLess(filters["max_publication_date"], publication_date(recipe))
                  THEN "reject" ELSE "ok"
           ELSE "ok"
    ELSE "ok"

ImageFilter(filters, recipe) ==
  IF BoolOn(filters, "has_image") /\ (recipe.image = <<>> \/ strip(recipe.image) = <<>>)
    THEN "reject" ELSE "ok"

KeywordFilter(filters, recipe) ==
  IF ~SeqOn(filters, "keywords") THEN "ok"
  ELSE IF \E i \in 1..Len(filters["keywords"]) :
            \/ lower(filters["keywords"][i]) \in Range(LowerAll(recipe.keywords))
            \/ IsSubstring(lower(filters["keywords"][i]),
                           lower(recipe.title \o <<" ">> \o recipe.description))
    THEN "ok" ELSE "reject"

\* the statements of _apply_filters after recipe_data is known, in order
FilterChecks(filters, recipe) ==
  LET times == recipe.times.d
      nutrition == recipe.nutrition.d
  IN <<
    ListFilter(filters, "cuisine", recipe.cuisine),
    ListFilter(filters, "ingredients", recipe.ingredients),
    SubstringFilter(filters, "difficulty", lower(recipe.difficulty)),
    ListFilter(filters, "category", recipe.category),
    SubstringFilter(filters, "meal_type", TextContent(recipe, recipe.keywords)),
    SubstringFilter(filters, "dietary",
                    TextContent(recipe, recipe.keywords) \o <<" ">>
                      \o lower(join(<<" ">>, recipe.ingredients))),
    SubstringFilter(filters, "cooking_method", TextContent(recipe, recipe.instructions)),
    ListFilter(filters, "tools", recipe.tools),
    DictGet(recipe.times),
    RawMax(filters, "max_total_minutes", times.total),
    RawMin(filters, "min_total_minutes", times.total),
    RawMax(filters, "max_prep_minutes", times.prep),
    RawMax(filters, "max_cook_minutes", times.cook),
    NumMin(filters, "min_rating", rating_value(recipe)),
    NumMax(filters, "max_rating", rating_value(recipe)),
    NumMin(filters, "min_review_count", review_count_value(recipe)),
    DictGet(recipe.nutrition),
    NumMax(filters, "max_calories", _safe_float(nutrition.calories)),
    NumMin(filters, "min_calories", _safe_float(nutrition.calories)),
    NumMax(filters, "max_protein", _safe_float(nutrition.protein)),
    NumMin(filters, "min_protein", _safe_float(nutrition.protein)),
    NumMax(filters, "max_carbs", _safe_float(CarbsRaw(nutrition))),
    NumMin(filters, "min_carbs", _safe_float(CarbsRaw(nutrition))),
    NumMax(filters, "max_fat", _safe_float(nutrition.fat)),
    NumMin(filters, "min_fat", _safe_float(nutrition.fat)),
    NumMax(filters, "max_fiber", _safe_float(nutrition.fiber)),
    NumMin(filters, "min_fiber", _safe_float(nutrition.fiber)),
    NumMax(filters, "max_sugar", _safe_float(nutrition.sugar)),
    NumMin(filters, "min_sugar", _safe_float(nutrition.sugar)),
    NumMax(filters, "max_sodium", _safe_float(nutrition.sodium)),
    RawMin(filters, "min_sodium", nutrition.sodium),
    YieldFilter(filters, recipe),
    SubstringFilter(filters, "author", lower(recipe.author)),
    DateFilter(filters, recipe),
    ImageFilter(filters, recipe),
    KeywordFilter(filters, recipe),
    NumMin(filters, "min_ingredients", Len(recipe.ingredients)),
    NumMax(filters, "max_ingredients", Len(recipe.ingredients)),
    NumMin(filters, "min_instructions", Len(recipe.instructions)),
    NumMax(filters, "max_instructions", Len(recipe.instructions))
  >>

\* the outcome of running the checks in order: "true", "false" or "raise"
RunChecks(checks) ==
  IF \A i \in 1..Len(checks) : checks[i] = "ok" THEN "true"
  ELSE LET first == CHOOSE i \in 1..Len(checks) :
                      checks[i] # "ok" /\ \A j \in 1..(i - 1) : checks[j] = "ok"
       IN IF checks[first] = "reject" THEN "false" ELSE "raise"

\* _apply_filters with recipe_data given (a non-empty object)
ApplyFiltersTo(recipe, filters) ==
  IF filters = NoFilters THEN "true" ELSE RunChecks(FilterChecks(filters, recipe))

----------------------------------------------------------------------------
(* RobustRecipeSearcher: construction and _load_index *)

RECURSIVE Distinct(_)
\* the members of a sequence in order of first occurrence (keys of a dict filled in that order)
Distinct(s) ==
  IF s = <<>> THEN <<>>
  ELSE LET rest == Distinct(SubSeq(s, 1, Len(s) - 1))
       IN IF s[Len(s)] \in Range(rest) THEN rest ELSE Append(rest, s[Len(s)])

\* the last row of rows whose first column is key
LastRow(rows, key) ==
  rows[CHOOSE i \in 1..Len(rows) :
         rows[i][1] = key /\ \A j \in (i + 1)..Len(rows) : rows[j][1] # key]

PostingsOfRows(rows, term) ==
  LET mine == SelectSeq(rows, LAMBDA row : row[1] = term)
  IN [i \in 1..Len(mine) |-> <<mine[i][2], mine[i][3], mine[i][4]>>]

field_weights == [title |-> 3, ingredients |-> 2, instructions |-> 1]
\* k1 = 1.2 in tenths, b = 0.75 in hundredths
k1 == 12
b == 75

\* the positions of character c in s, ascending
Positions(s, c) == SelectSeq([i \in 1..Len(s) |-> i], LAMBDA i : s[i] = c)

\* s.split(c)
Split(s, c) ==
  LET cuts == <<0>> \o Positions(s, c) \o <<Len(s) + 1>>
  IN [k \in 1..(Len(cuts) - 1) |-> SubSeq(s, cuts[k] + 1, cuts[k + 1] - 1)]

\* the lines a text file yields when iterated (a last line without newline included)
FileLines(text) ==
  LET pieces == Split(text, "\n")
  IN IF pieces[Len(pieces)] = <<>> THEN SubSeq(pieces, 1, Len(pieces) - 1) ELSE pieces

\* int(s) succeeds: decimal digits, surrounding whitespace allowed
IsIntText(s) == strip(s) # <<>> /\ \A i \in 1..Len(strip(s)) : IsDigit(strip(s)[i])

IntOf(s) == DigitsValue(strip(s), 1, 0)

\* the rows the docmeta loop of _load_index accepts, in file order
DocmetaRows(text) ==
  LET lines == Tail(FileLines(text))
      parts == [i \in 1..Len(lines) |-> Split(strip(lines[i]), "\t")]
      Valid(p) == /\ Len(p) >= 6
                  /\ IsIntText(p[4]) /\ IsIntText(p[5]) /\ IsIntText(p[6])
      valid == SelectSeq(parts, Valid)
  IN [i \in 1..Len(valid) |->
        <<valid[i][1], valid[i][2], valid[i][3],
          IntOf(valid[i][4]), IntOf(valid[i][5]), IntOf(valid[i][6])>>]

\* float(s) succeeds: an optional sign, digits, an optional point and digits
IsFloatText(s) ==
  LET t == strip(s)
      u == IF t # <<>> /\ t[1] = "-" THEN Tail(t) ELSE t
      parts == Split(u, ".")
  IN /\ Len(parts) \in {1, 2}
     /\ parts[1] # <<>>
     /\ \A k \in 1..Len(parts) : \A i \in 1..Len(parts[k]) : IsDigit(parts[k][i])

\* float(s) in thousandths
FloatOf(s) ==
  LET t == strip(s)
      neg == t # <<>> /\ t[1] = "-"
      parts == Split(IF neg THEN Tail(t) ELSE t, ".")
      frac == IF Len(parts) = 2 THEN SubSeq(parts[2] \o <<"0","0","0">>, 1, 3) ELSE <<"0","0","0">>
      a == 1000 * DigitsValue(parts[1], 1, 0) + DigitsValue(frac, 1, 0)
  IN IF neg THEN 0 - a ELSE a

\* the field name of the characters read from postings.tsv
FieldOf(chars) ==
  IF \E field \in {"title", "ingredients", "instructions"} : FieldChars(field) = chars
    THEN CHOOSE field \in {"title", "ingredients", "instructions"} : FieldChars(field) = chars
    ELSE "other"

\* the rows the terms loop of _load_index accepts, in file order
TermsRows(text) ==
  LET lines == Tail(FileLines(text))
      parts == [i \in 1..Len(lines) |-> Split(strip(lines[i]), "\t")]
      Valid(p) == Len(p) = 3 /\ IsIntText(p[2]) /\ IsFloatText(p[3])
      valid == SelectSeq(parts, Valid)
  IN [i \in 1..Len(valid) |-> <<valid[i][1], IntOf(valid[i][2]), FloatOf(valid[i][3])>>]

\* the rows the postings loop of _load_index reads without error, in file order
PostingsRows(text) ==
  LET lines == Tail(FileLines(text))
      parts == [i \in 1..Len(lines) |-> Split(strip(lines[i]), "\t")]
      Valid(p) == Len(p) = 4 /\ IsIntText(p[4])
      valid == SelectSeq(parts, Valid)
  IN [i \in 1..Len(valid) |->
        <<valid[i][1], FieldOf(valid[i][2]), valid[i][3], IntOf(valid[i][4])>>]

\* the object after __init__ and _load_index have read the three files
_load_index(files) ==
  LET terms == TermsRows(files.terms)
      postings == PostingsRows(files.postings)
      term_keys == {terms[i][1] : i \in 1..Len(terms)}
      posting_keys == {postings[i][1] : i \in 1..Len(postings)} \cap term_keys
      docmeta == DocmetaRows(files.docmeta)
      doc_keys == Distinct([i \in 1..Len(docmeta) |-> docmeta[i][1]])
  IN [terms |-> [term \in term_keys |->
                   <<LastRow(terms, term)[2], LastRow(terms, term)[3]>>],
      postings |-> [term \in posting_keys |-> PostingsOfRows(postings, term)],
      doc_metadata |->
        [keys |-> doc_keys,
         at |-> [d \in Range(doc_keys) |->
                   LET row == LastRow(docmeta, d)
                   IN [url |-> row[2], title |-> row[3], len_title |-> row[4],
                       len_ing |-> row[5], len_instr |-> row[6]]]],
      total_docs |-> Len(doc_keys),
      _filter_cache |-> <<>>,
      stats |-> [queries_processed |-> 0, total_results |-> 0,
                 avg_results_per_query |-> <<0, 1>>]]

RECURSIVE BuildFrom(_, _)
\* the indexer after the read loop of build_index over lines
BuildFrom(ix, lines) ==
  IF lines = <<>> THEN ix ELSE BuildFrom(ProcessLine(ix, lines[1]), Tail(lines))

\* the files that build_index writes for an input
build_index(lines) == _save_index(_calculate_idf(FinalStatistics(BuildFrom(NewIndexer, lines))))

\* a constructor that accepts an index without documents
RobustRecipeSearcherLax(dir) ==
  IF ~dir.exists THEN "FileNotFoundError"
  ELSE IF dir.files # index_files THEN "FileNotFoundError"
  ELSE "none"
\* RobustRecipeSearcher.__init__ on a directory: the exception it raises, or "none"
RobustRecipeSearcher(dir) ==
  IF ~dir.exists THEN "FileNotFoundError"
  ELSE IF dir.files # index_files THEN "FileNotFoundError"
  ELSE IF \E name \in {"terms", "postings", "docmeta"} : FileLines(dir[name]) = <<>>
    THEN "StopIteration"
  ELSE IF _load_index(dir).total_docs = 0 THEN "ValueError"
  ELSE "none"

\* a file of the index directory, or the directory itself, is removed after the build
RemoveFile ==
  /\ build_pc = "done"
  /\ last = Idle
  /\ index_dir.exists
  /\ \/ \E name \in index_dir.files : index_dir' = [index_dir EXCEPT !.files = @ \ {name}]
     \/ index_dir' = [index_dir EXCEPT !.exists = FALSE, !.files = {}]
  /\ UNCHANGED <<input_file, line_num, build_pc, indexer, corpus, searcher, request, last, f_in, f_out, scan_state, seeds, frontier, threads>>

\* the search program constructs its searcher on the directory as it is now
LoadIndex ==
  /\ last = Idle
  /\ last' = [op |-> "__init__", raised |-> RobustRecipeSearcher(index_dir)]
  /\ searcher' = IF RobustRecipeSearcher(index_dir) = "none" THEN _load_index(index_dir) ELSE Idle
  /\ UNCHANGED <<input_file, line_num, build_pc, indexer, index_dir, corpus, request, f_in, f_out, scan_state, seeds, frontier, threads>>

NextBuild == ReadLine \/ EndOfInput \/ CalculateIdf \/ SaveIndex \/ RemoveFile \/ LoadIndex

SpecBuild == InitBuild /\ [][NextBuild]_vars

----------------------------------------------------------------------------
(* Corpus access of the filter engine *)

IsRecipeOf(line, doc_id) == line.kind = "recipe" /\ line.id = doc_id

\* _get_recipe_data: the first record of the corpus with this id
_get_recipe_data(doc_id) ==
  IF \E i \in 1..Len(corpus) : IsRecipeOf(corpus[i], doc_id)
    THEN [found |-> TRUE,
          recipe |-> corpus[CHOOSE i \in 1..Len(corpus) :
                              /\ IsRecipeOf(corpus[i], doc_id)
                              /\ \A j \in 1..(i - 1) : ~IsRecipeOf(corpus[j], doc_id)]]
    ELSE [found |-> FALSE, recipe |-> BlankRecipe]

\* _apply_filters with "if not filters" answering False
ApplyFiltersDenyEmpty(doc_id, filters) ==
  IF filters = NoFilters THEN "false"
  ELSE IF ~_get_recipe_data(doc_id).found THEN "false"
  ELSE RunChecks(FilterChecks(filters, _get_recipe_data(doc_id).recipe))

\* _apply_filters(doc_id, filters) with recipe_data loaded by the method itself
_apply_filters(doc_id, filters) ==
  IF filters = NoFilters THEN "true"
  ELSE IF ~_get_recipe_data(doc_id).found THEN "false"
  ELSE RunChecks(FilterChecks(filters, _get_recipe_data(doc_id).recipe))

RECURSIVE LoadBatch(_, _, _, _)
\* _load_recipes_batch: scan the corpus from line i; got is the ordered dict so far
LoadBatch(doc_ids, i, keys, at) ==
  IF i > Len(corpus) \/ Len(keys) = Len(doc_ids) THEN [keys |-> keys, at |-> at]
  ELSE IF corpus[i].kind = "recipe" /\ corpus[i].id \in Range(doc_ids)
    THEN LoadBatch(doc_ids, i + 1,
                   IF corpus[i].id \in Range(keys) THEN keys ELSE Append(keys, corpus[i].id),
                   [d \in Range(keys) \cup {corpus[i].id} |->
                      IF d = corpus[i].id THEN corpus[i] ELSE at[d]])
    ELSE LoadBatch(doc_ids, i + 1, keys, at)

_load_recipes_batch(doc_ids) == LoadBatch(doc_ids, 1, <<>>, <<>>)

time_filter_keys ==
  {"max_total_minutes", "min_total_minutes", "max_prep_minutes",
   "min_prep_minutes", "max_cook_minutes", "min_cook_minutes"}

_only_time_filters(filters) == \A key \in DOMAIN filters : key \in time_filter_keys

_check_time_filters(recipe, filters) ==
  RunChecks(<<
    DictGet(recipe.times),
    RawMax(filters, "max_total_minutes", recipe.times.d.total),
    RawMin(filters, "min_total_minutes", recipe.times.d.total),
    RawMax(filters, "max_prep_minutes", recipe.times.d.prep),
    RawMin(filters, "min_prep_minutes", recipe.times.d.prep),
    RawMax(filters, "max_cook_minutes", recipe.times.d.cook),
    RawMin(filters, "min_cook_minutes", recipe.times.d.cook)
  >>)

----------------------------------------------------------------------------
(* Filter-only path: _filter_all_documents *)

max_docs_to_process == 2000
max_filter_results == 1000
generic_batch_size == 500
time_batch_size == 100

Min(x, y) == IF x <= y THEN x ELSE y

\* results[offset:k]
SliceToLimit(results, offset, k) == SubSeq(results, offset + 1, Min(k, Len(results)))

\* results[offset:offset + k] for offset >= 0 and k >= 0
Slice(results, offset, k) == SubSeq(results, offset + 1, Min(offset + k, Len(results)))

\* doc_ids[i:i + batch_size] for i in range(0, len(doc_ids), batch_size)
Batches(doc_ids, batch_size) ==
  [n \in 1..((Len(doc_ids) + batch_size - 1) \div batch_size) |->
     Slice(doc_ids, (n - 1) * batch_size, batch_size)]

\* list.sort(key=doc id): stable, ascending
RECURSIVE SortByDocId(_)
SortByDocId(results) ==
  IF results = <<>> THEN <<>>
  ELSE LET sorted == SortByDocId(SubSeq(results, 1, Len(results) - 1))
           x == results[Len(results)]
           n == Cardinality({i \in 1..Len(sorted) : ~StrLess(x[1], sorted[i][1])})
       IN SubSeq(sorted, 1, n) \o <<x>> \o SubSeq(sorted, n + 1, Len(sorted))

\* list.sort(key=score): stable, ascending
RECURSIVE SortAscending(_)
SortAscending(results) ==
  IF results = <<>> THEN <<>>
  ELSE LET sorted == SortAscending(SubSeq(results, 1, Len(results) - 1))
           x == results[Len(results)]
           n == Cardinality({i \in 1..Len(sorted) : sorted[i][2] <= x[2]})
       IN SubSeq(sorted, 1, n) \o <<x>> \o SubSeq(sorted, n + 1, Len(sorted))

\* list.sort(key=score, reverse=True): stable, descending
RECURSIVE SortByScore(_)
SortByScore(results) ==
  IF results = <<>> THEN <<>>
  ELSE LET sorted == SortByScore(SubSeq(results, 1, Len(results) - 1))
           x == results[Len(results)]
           n == Cardinality({i \in 1..Len(sorted) : sorted[i][2] >= x[2]})
       IN SubSeq(sorted, 1, n) \o <<x>> \o SubSeq(sorted, n + 1, Len(sorted))

\* the documents of one batch of the time-only path with the outcome of their check
TimeBatch(batch, filters) ==
  LET recipes == _load_recipes_batch(batch)
  IN [i \in 1..Len(recipes.keys) |->
        [doc_id |-> recipes.keys[i],
         out |-> _check_time_filters(recipes.at[recipes.keys[i]], filters)]]

_filter_by_time_only(s, filters) ==
  LET batches == Batches(s.doc_metadata.keys, time_batch_size)
      entries == Concat([n \in 1..Len(batches) |-> TimeBatch(batches[n], filters)])
      hits == SelectSeq(entries, LAMBDA e : e.out = "true")
  IN [raised |-> \E i \in 1..Len(entries) : entries[i].out = "raise",
      results |-> [i \in 1..Len(hits) |-> <<hits[i].doc_id, 1000000>>]]

\* the documents of one batch of the generic path with the outcome of their filters
GenericBatch(batch, filters) ==
  LET recipes == _load_recipes_batch(batch)
  IN [i \in 1..Len(batch) |->
        [doc_id |-> batch[i],
         out |-> IF batch[i] \in Range(recipes.keys)
                   THEN ApplyFiltersTo(recipes.at[batch[i]], filters)
                   ELSE "false"]]

RECURSIVE GenericScan(_, _, _)
\* the two nested loops: stop at the first exception or at max_filter_results matches
GenericScan(entries, i, results) ==
  IF i > Len(entries) \/ Len(results) >= max_filter_results
    THEN [raised |-> FALSE, results |-> results]
  ELSE IF entries[i].out = "raise" THEN [raised |-> TRUE, results |-> <<>>]
  ELSE IF entries[i].out = "true"
    THEN GenericScan(entries, i + 1, Append(results, <<entries[i].doc_id, 1000000>>))
  ELSE GenericScan(entries, i + 1, results)

FilterGeneric(s, filters) ==
  LET doc_ids == Slice(s.doc_metadata.keys, 0, max_docs_to_process)
      batches == Batches(doc_ids, generic_batch_size)
      entries == Concat([n \in 1..Len(batches) |-> GenericBatch(batches[n], filters)])
      scan == GenericScan(entries, 1, <<>>)
  IN [raised |-> scan.raised, results |-> SortByDocId(scan.results)]

\* the filter keys in the order of their strings
filter_key_order ==
  <<"author", "category", "cooking_method", "cuisine", "dietary", "difficulty",
    "has_image", "include_ingredients", "ingredients", "keywords", "max_calories",
    "max_carbs", "max_cook_minutes", "max_fat", "max_fiber", "max_ingredients",
    "max_instructions", "max_prep_minutes", "max_protein", "max_publication_date",
    "max_rating", "max_servings", "max_sodium", "max_sugar", "max_total_minutes",
    "max_yield", "meal_type", "min_calories", "min_carbs", "min_cook_minutes",
    "min_fat", "min_fiber", "min_ingredients", "min_instructions", "min_prep_minutes",
    "min_protein", "min_publication_date", "min_rating", "min_review_count",
    "min_servings", "min_sodium", "min_sugar", "min_total_minutes", "min_yield",
    "tools">>

KeyRank(key) == CHOOSE i \in 1..Len(filter_key_order) : filter_key_order[i] = key

\* filters.items(): the pairs of the request's dict in the order of their insertion
items(filters) ==
  [i \in 1..Len(request.order) |-> <<request.order[i], filters[request.order[i]]>>]

\* str(sorted(filters.items()))
cache_key(filters) ==
  SortSeq(items(filters), LAMBDA x, y : KeyRank(x[1]) < KeyRank(y[1]))

\* self._filter_cache[cache_key] = results, unless the scan raised
CacheStore(s, key, found) ==
  IF found.raised
    THEN [raised |-> TRUE, scanned |-> TRUE, results |-> <<>>, cache |-> s._filter_cache]
    ELSE [raised |-> FALSE, scanned |-> TRUE, results |-> found.results,
          cache |-> [entry \in DOMAIN s._filter_cache \cup {key} |->
                       IF entry = key THEN found.results ELSE s._filter_cache[entry]]]

\* the list returned, the cache afterwards, whether the corpus was scanned, and
\* whether the call raised instead
_filter_all_documents(s, filters) ==
  IF filters = NoFilters
    THEN [raised |-> FALSE, scanned |-> FALSE, results |-> <<>>, cache |-> s._filter_cache]
  ELSE IF cache_key(filters) \in DOMAIN s._filter_cache
    THEN [raised |-> FALSE, scanned |-> FALSE,
          results |-> s._filter_cache[cache_key(filters)], cache |-> s._filter_cache]
  ELSE CacheStore(s, cache_key(filters),
                  IF _only_time_filters(filters) THEN _filter_by_time_only(s, filters)
                  ELSE FilterGeneric(s, filters))

----------------------------------------------------------------------------
(* Ranking engine: search_tfidf, search_bm25, get_total_results *)

RECURSIVE SumSeq(_)
SumSeq(xs) == IF xs = <<>> THEN 0 ELSE xs[1] + SumSeq(Tail(xs))

RECURSIVE SqrtBetween(_, _, _)
\* the largest r in lo..hi with r * r <= n
SqrtBetween(n, lo, hi) ==
  IF lo >= hi THEN lo
  ELSE LET mid == (lo + hi + 1) \div 2
       IN IF mid * mid <= n THEN SqrtBetween(n, mid, hi) ELSE SqrtBetween(n, lo, mid - 1)

\* math.sqrt, rounded down
Sqrt(n) == SqrtBetween(n, 0, 46340)

\* the postings list read by self.postings[term] (a defaultdict)
PostingsOf(s, term) == IF term \in DOMAIN s.postings THEN s.postings[term] ELSE <<>>

\* the query terms, a term outside the dictionary replaced by some term of it
KnownTermsFuzzy(s, query_terms) ==
  Distinct([i \in 1..Len(query_terms) |->
              IF query_terms[i] \in DOMAIN s.terms THEN query_terms[i]
              ELSE CHOOSE term \in DOMAIN s.terms : TRUE])

\* the query terms the scoring loops do not skip, in the order of the keys of query_tf
KnownTerms(s, query_terms) ==
  SelectSeq(Distinct(query_terms), LAMBDA term : term \in DOMAIN s.terms)

\* the (term, posting) pairs in the order the loops visit them
Visits(s, terms) ==
  Concat([i \in 1..Len(terms) |->
    [j \in 1..Len(PostingsOf(s, terms[i])) |->
       [term |-> terms[i],
        field |-> PostingsOf(s, terms[i])[j][1],
        doc_id |-> PostingsOf(s, terms[i])[j][2],
        tf |-> PostingsOf(s, terms[i])[j][3]]]])

\* the outcome of _apply_filters for every document the loops visit
PassesOf(visits, filters) ==
  [d \in {visits[i].doc_id : i \in 1..Len(visits)} |-> _apply_filters(d, filters)]

\* every posting, whether its document passed the filters or not
ScoringAll(visits, passes) == visits

\* the postings whose document passed "if self._apply_filters(doc_id, filters):"
Scoring(visits, passes) == SelectSeq(visits, LAMBDA visit : passes[visit.doc_id] = "true")

\* what the loops of a ranked query go through: the terms, the postings, the
\* outcome of the filters and the postings that are accumulated
ScanRecord(query_terms, known, visits, passes) ==
  [query_terms |-> query_terms, known |-> known, visits |-> visits, passes |-> passes,
   raised |-> \E d \in DOMAIN passes : passes[d] = "raise",
   scoring |-> Scoring(visits, passes)]

ScanVisits(query_terms, known, visits, filters) ==
  ScanRecord(query_terms, known, visits, PassesOf(visits, filters))

ScanTerms(s, query_terms, known, filters) ==
  ScanVisits(query_terms, known, Visits(s, known), filters)

Scan(s, query_terms, filters) ==
  ScanTerms(s, query_terms, KnownTerms(s, query_terms), filters)

\* self.postings after the loops have read self.postings[term] for the known terms
Touch(s, known) ==
  [s EXCEPT !.postings = [term \in DOMAIN s.postings \cup Range(known) |-> PostingsOf(s, term)]]

UpdateStats(s, results) ==
  [s EXCEPT !.stats =
     [queries_processed |-> s.stats.queries_processed + 1,
      total_results |-> s.stats.total_results + Len(results),
      avg_results_per_query |->
        <<s.stats.total_results + Len(results), s.stats.queries_processed + 1>>]]

\* what a search call leaves behind: the list returned, the sorted list and the
\* accumulator keys it was cut from, the searcher afterwards
Outcome(path, raised, ret, results, scored, s) ==
  [path |-> path, raised |-> raised, ret |-> ret, results |-> results,
   scored |-> scored, s |-> s]

\* return results[offset:offset + k] of the filter-only list
FilterOnly(s, k, offset, found) ==
  IF found.raised THEN Outcome("filter_only", TRUE, <<>>, <<>>, <<>>, s)
  ELSE Outcome(IF found.scanned THEN "filter_only" ELSE "filter_cache",
               FALSE, Slice(found.results, offset, k), found.results, <<>>,
               [s EXCEPT !._filter_cache = found.cache])

\* the branch taken when the query has no terms
EmptyQuery(s, k, filters, offset) ==
  IF filters # NoFilters THEN FilterOnly(s, k, offset, _filter_all_documents(s, filters))
  ELSE Outcome("empty", FALSE, <<>>, <<>>, <<>>, s)

\* the end of both scorers: sort, statistics, slice
Ranked(s, scan, k, offset, docs, results) ==
  Outcome("ranked", FALSE, Slice(results, offset, k), results, docs,
          UpdateStats(Touch(s, scan.known), results))

\* index of the first TRUE of a sequence of booleans
FirstTrue(flags) == CHOOSE i \in 1..Len(flags) : flags[i] /\ \A j \in 1..(i - 1) : ~flags[j]

\* the known terms whose loop iteration has begun when visit number i is reached
TermsUntil(scan, i) ==
  SubSeq(scan.known, 1, CHOOSE n \in 1..Len(scan.known) : scan.known[n] = scan.visits[i].term)

\* the except branch: the loops stop at the first visit that raises
Failure(s, scan, raises) ==
  Outcome("ranked", TRUE, <<>>, <<>>, <<>>, Touch(s, TermsUntil(scan, FirstTrue(raises))))

\* doc_ids in the order in which they enter doc_scores
ScoredDocs(scoring) == Distinct([i \in 1..Len(scoring) |-> scoring[i].doc_id])

\* sum of the weights of the accumulated postings of one document
Accumulate(scoring, d, weights) ==
  SumSeq([i \in 1..Len(scoring) |-> IF scoring[i].doc_id = d THEN weights[i] ELSE 0])

\* query_tf[term] * idf, in thousandths
QueryTfIdf(s, query_terms, term) == Count(term, query_terms) * s.terms[term][2]

\* tf * idf * self.field_weights[field], in thousandths
DocTfIdf(s, visit) == visit.tf * s.terms[visit.term][2] * field_weights[visit.field]

\* math.sqrt of the sum of the squares of query_tf[term] * idf over the known terms
QueryMagnitude(s, scan) ==
  Sqrt(SumSeq([i \in 1..Len(scan.known) |->
                 QueryTfIdf(s, scan.query_terms, scan.known[i])
                   * QueryTfIdf(s, scan.query_terms, scan.known[i])]))

\* doc_scores[doc_id]
DocScore(s, scan, d) ==
  Accumulate(scan.scoring, d,
             [i \in 1..Len(scan.scoring) |->
                QueryTfIdf(s, scan.query_terms, scan.scoring[i].term)
                  * DocTfIdf(s, scan.scoring[i])])

\* doc_magnitudes[doc_id]
DocMagnitude(s, scan, d) ==
  Accumulate(scan.scoring, d,
             [i \in 1..Len(scan.scoring) |->
                DocTfIdf(s, scan.scoring[i]) * DocTfIdf(s, scan.scoring[i])])

\* doc_scores[doc_id] / (query_magnitude * magnitude), in thousandths
CosineSim(s, scan, query_magnitude, d) ==
  ((DocScore(s, scan, d) \div query_magnitude) * 1000) \div Sqrt(DocMagnitude(s, scan, d))

\* the results list before the sort: the documents of doc_scores with doc_magnitudes > 0
TfidfResults(s, scan, query_magnitude, docs) ==
  LET kept == SelectSeq(docs, LAMBDA d : DocMagnitude(s, scan, d) > 0)
  IN [i \in 1..Len(kept) |-> <<kept[i], CosineSim(s, scan, query_magnitude, kept[i])>>]

TfidfQuery(s, scan, k, filters, offset) ==
  IF scan.query_terms = <<>> THEN EmptyQuery(s, k, filters, offset)
  ELSE IF QueryMagnitude(s, scan) = 0 THEN Outcome("no_valid_terms", FALSE, <<>>, <<>>, <<>>, s)
  ELSE IF scan.raised
    THEN Failure(s, scan, [i \in 1..Len(scan.visits) |->
                             scan.passes[scan.visits[i].doc_id] = "raise"])
  ELSE Ranked(s, scan, k, offset, ScoredDocs(scan.scoring),
              SortByScore(TfidfResults(s, scan, QueryMagnitude(s, scan),
                                       ScoredDocs(scan.scoring))))

search_tfidf(s, query, k, filters, offset) ==
  TfidfQuery(s, Scan(s, tokenize(query), filters), k, filters, offset)

\* sum of the three stored lengths over all documents
TotalLength(s) ==
  SumSeq([i \in 1..Len(s.doc_metadata.keys) |->
            s.doc_metadata.at[s.doc_metadata.keys[i]].len_title
              + s.doc_metadata.at[s.doc_metadata.keys[i]].len_ing
              + s.doc_metadata.at[s.doc_metadata.keys[i]].len_instr])

FieldLength(meta, field) ==
  IF field = "title" THEN meta.len_title
  ELSE IF field = "ingredients" THEN meta.len_ing
  ELSE meta.len_instr

\* (tf * (k1 + 1)) / (tf + k1 * (1 - b + b * (doc_length / avg_doc_length))) in
\* thousandths, with avg_doc_length = total_length / total_docs
Bm25Tf(tf, doc_length, total_length, total_docs) ==
  (100000 * tf * (k1 + 10) * total_length)
    \div (1000 * tf * total_length + k1 * ((100 - b) * total_length + b * doc_length * total_docs))

\* bm25_score of one posting, in millionths
Bm25Score(s, visit) ==
  Bm25Tf(visit.tf, FieldLength(s.doc_metadata.at[visit.doc_id], visit.field),
         TotalLength(s), s.total_docs)
    * s.terms[visit.term][2] * field_weights[visit.field]

\* bm25_score of a posting of the term with the given tf and field length, in millionths
TermScore(s, term, field, tf, doc_length) ==
  Bm25Tf(tf, doc_length, TotalLength(s), s.total_docs) * s.terms[term][2] * field_weights[field]

\* the visits at which the scoring loop of search_bm25 raises
Bm25Raises(s, scan) ==
  [i \in 1..Len(scan.visits) |->
     \/ scan.passes[scan.visits[i].doc_id] = "raise"
     \/ /\ scan.passes[scan.visits[i].doc_id] = "true"
        /\ (scan.visits[i].doc_id \notin Range(s.doc_metadata.keys) \/ TotalLength(s) = 0)]

Bm25Results(s, scan, docs) ==
  [i \in 1..Len(docs) |->
     <<docs[i], Accumulate(scan.scoring, docs[i],
                           [j \in 1..Len(scan.scoring) |-> Bm25Score(s, scan.scoring[j])])>>]

Bm25Query(s, scan, k, filters, offset) ==
  IF scan.query_terms = <<>> THEN EmptyQuery(s, k, filters, offset)
  ELSE IF s.total_docs = 0 THEN Outcome("no_documents", FALSE, <<>>, <<>>, <<>>, s)
  ELSE IF \E i \in 1..Len(scan.visits) : Bm25Raises(s, scan)[i]
    THEN Failure(s, scan, Bm25Raises(s, scan))
  ELSE Ranked(s, scan, k, offset, ScoredDocs(scan.scoring),
              SortByScore(Bm25Results(s, scan, ScoredDocs(scan.scoring))))

search_bm25(s, query, k, filters, offset) ==
  Bm25Query(s, Scan(s, tokenize(query), filters), k, filters, offset)

\* the terms of the query that have a postings entry, with repetitions
WithPostings(s, query_terms) == SelectSeq(query_terms, LAMBDA term : term \in DOMAIN s.postings)

\* the count returned by the filter-only branch
CountFiltered(s, found) ==
  IF found.raised THEN [raised |-> TRUE, count |-> 0, s |-> s]
  ELSE [raised |-> FALSE, count |-> Len(found.results),
        s |-> [s EXCEPT !._filter_cache = found.cache]]

\* len(matching_docs)
CountMatching(s, passes) ==
  IF \E d \in DOMAIN passes : passes[d] = "raise" THEN [raised |-> TRUE, count |-> 0, s |-> s]
  ELSE [raised |-> FALSE, count |-> Cardinality({d \in DOMAIN passes : passes[d] = "true"}),
        s |-> s]

TotalQuery(s, query_terms, filters) ==
  IF query_terms = <<>>
    THEN IF filters # NoFilters THEN CountFiltered(s, _filter_all_documents(s, filters))
         ELSE [raised |-> FALSE, count |-> 0, s |-> s]
  ELSE CountMatching(s, PassesOf(Visits(s, WithPostings(s, query_terms)), filters))

\* the count returned and the searcher afterwards
get_total_results(s, query, filters) == TotalQuery(s, tokenize(query), filters)

----------------------------------------------------------------------------
(* A search session: one loaded searcher over one corpus, serving the calls *)
(* that the /api/search handler makes for one query and one filter set.     *)

q_empty == <<>>
q_the == w_the
q_garlic_bread == w_garlic \o <<" ">> \o w_bread
q_tofu_cake == w_tofu \o <<" ">> \o w_cake
q_tofu == w_tofu

QueryPool == {q_empty, q_the, q_garlic_bread, q_tofu_cake, q_tofu}

f_time == [max_total_minutes |-> 30]
f_cuisine == [cuisine |-> <<s_Italian>>]
f_rating == [min_rating |-> 4, max_total_minutes |-> 45]

f_zero == [max_total_minutes |-> 0]

FilterPool == {NoFilters, f_time, f_cuisine, f_rating, f_zero}

\* the orders in which the keys of a filter dict can have been inserted
Orders(filters) ==
  LET n == Cardinality(DOMAIN filters)
  IN {order \in [1..n -> DOMAIN filters] : \A i, j \in 1..n : i # j => order[i] # order[j]}

\* the requests with a query and a filter dict of two pools
Requests(queries, filter_sets) ==
  UNION {{[query |-> q, filters |-> filters, order |-> order] : order \in Orders(filters)} :
           q \in queries, filters \in filter_sets}

Init ==
  /\ corpus \in Lines(RecipePool, MaxLines)
  /\ searcher = _load_index(build_index(corpus))
  /\ request \in Requests(QueryPool, FilterPool)
  /\ last = [op |-> "none"]
  /\ input_file = Idle /\ line_num = Idle /\ build_pc = Idle
  /\ indexer = Idle /\ index_dir = Idle
  /\ f_in = Idle /\ f_out = Idle /\ scan_state = Idle
  /\ seeds = Idle /\ frontier = Idle /\ threads = Idle

\* what is recorded of a search call
SearchRecord(op, k, offset, out) ==
  [op |-> op, k |-> k, offset |-> offset, path |-> out.path, raised |-> out.raised,
   ret |-> out.ret, results |-> out.results, scored |-> out.scored]

SearchTfidf(k, offset) ==
  /\ searcher.stats.queries_processed < MaxQueries
  /\ \E out \in {search_tfidf(searcher, request.query, k, request.filters, offset)} :
        /\ searcher' = out.s
        /\ last' = SearchRecord("search_tfidf", k, offset, out)
  /\ UNCHANGED <<input_file, line_num, build_pc, indexer, index_dir, corpus, request, f_in, f_out, scan_state, seeds, frontier, threads>>

SearchBm25(k, offset) ==
  /\ searcher.stats.queries_processed < MaxQueries
  /\ \E out \in {search_bm25(searcher, request.query, k, request.filters, offset)} :
        /\ searcher' = out.s
        /\ last' = SearchRecord("search_bm25", k, offset, out)
  /\ UNCHANGED <<input_file, line_num, build_pc, indexer, index_dir, corpus, request, f_in, f_out, scan_state, seeds, frontier, threads>>

GetTotalResults ==
  /\ \E out \in {get_total_results(searcher, request.query, request.filters)} :
        /\ searcher' = out.s
        /\ last' = [op |-> "get_total_results", raised |-> out.raised, count |-> out.count]
  /\ UNCHANGED <<input_file, line_num, build_pc, indexer, index_dir, corpus, request, f_in, f_out, scan_state, seeds, frontier, threads>>

Next ==
  \/ \E k \in 0..MaxK, offset \in 0..MaxOffset : SearchTfidf(k, offset)
  \/ \E k \in 0..MaxK, offset \in 0..MaxOffset : SearchBm25(k, offset)
  \/ GetTotalResults

Spec == Init /\ [][Next]_vars

----------------------------------------------------------------------------
(* Loading index files that were damaged after the build *)

\* the text of a file of the given lines
Unlines(lines) == Concat([i \in 1..Len(lines) |-> lines[i] \o <<"\n">>])

damage_kinds == {"cut", "extra", "text", "header"}

\* a line after the damage: its last column removed, a column added, or its
\* last column, a number, replaced by a word
DamagedLine(line, kind) ==
  LET parts == Split(line, "\t")
  IN CASE kind = "cut" -> join(<<"\t">>, SubSeq(parts, 1, Len(parts) - 1))
       [] kind = "extra" -> line \o <<"\t", "x">>
       [] kind = "text" -> join(<<"\t">>, SubSeq(parts, 1, Len(parts) - 1) \o <<w_the>>)
       [] kind = "header" -> w_the \o <<"\t">> \o line

\* the directory with line number at of one file damaged
Damaged(dir, name, at, kind) ==
  LET lines == FileLines(dir[name])
  IN [dir EXCEPT ![name] =
        Unlines([i \in 1..Len(lines) |-> IF i = at THEN DamagedLine(lines[i], kind) ELSE lines[i]])]

\* the directories that differ from a written one in at most one line: a data
\* line cut, extended or with a word for a number, or another header
DamagedDirs(dir) ==
  {dir} \cup
  UNION {{Damaged(dir, name, 1, "header")} \cup
         {Damaged(dir, name, at, kind) : at \in 2..Len(FileLines(dir[name])),
                                         kind \in {"cut", "extra", "text"}} :
           name \in {"terms", "postings", "docmeta"}}

q_bake_soup == w_bake \o <<" ">> \o w_soup

LoadRequests == Requests({q_bake_soup, q_tofu_cake}, {NoFilters})

InitLoad ==
  /\ corpus \in Lines(RecipePool, MaxLines)
  /\ input_file = corpus
  /\ line_num = Len(corpus)
  /\ build_pc = "done"
  /\ indexer = _calculate_idf(FinalStatistics(BuildFrom(NewIndexer, corpus)))
  /\ index_dir \in DamagedDirs(build_index(corpus))
  /\ searcher = Idle
  /\ last = Idle
  /\ request \in LoadRequests
  /\ f_in = Idle /\ f_out = Idle /\ scan_state = Idle
  /\ seeds = Idle /\ frontier = Idle /\ threads = Idle

\* a search on the searcher that the load produced
SearchLoaded ==
  /\ searcher # Idle
  /\ \/ \E k \in 1..MaxK : SearchBm25(k, 0)
     \/ \E k \in 1..MaxK : SearchTfidf(k, 0)
     \/ GetTotalResults

NextLoad == LoadIndex \/ SearchLoaded

SpecLoad == InitLoad /\ [][NextLoad]_vars

----------------------------------------------------------------------------
(* A filter-only session: one loaded searcher serving requests without       *)
(* query terms, each with its own filter dict                               *)

FilterOnlyRequests == Requests({q_empty}, {NoFilters, f_time, f_cuisine, f_rating})

InitCache ==
  /\ corpus \in Lines(RecipePool, MaxLines)
  /\ searcher = _load_index(build_index(corpus))
  /\ request \in FilterOnlyRequests
  /\ last = [op |-> "none"]
  /\ input_file = Idle /\ line_num = Idle /\ build_pc = Idle
  /\ indexer = Idle /\ index_dir = Idle
  /\ f_in = Idle /\ f_out = Idle /\ scan_state = Idle
  /\ seeds = Idle /\ frontier = Idle /\ threads = Idle

\* the handler receives the next request: data.get('query'), data.get('filters')
NewRequest ==
  /\ last.op # "none"
  /\ request' \in FilterOnlyRequests
  /\ last' = [op |-> "none"]
  /\ UNCHANGED <<input_file, line_num, build_pc, indexer, index_dir, corpus, searcher,
                 f_in, f_out, scan_state, seeds, frontier, threads>>

NextCache ==
  \/ NewRequest
  \/ \E k \in 0..MaxK, offset \in 0..MaxOffset : SearchTfidf(k, offset)
  \/ \E k \in 0..MaxK, offset \in 0..MaxOffset : SearchBm25(k, offset)
  \/ GetTotalResults

SpecCache == InitCache /\ [][NextCache]_vars

----------------------------------------------------------------------------
(* The filter engine on one record: _apply_filters with recipe_data given,   *)
(* and _check_time_filters of the time-only path                            *)

\* the min_* keys that some filter statement reads
min_keys ==
  {"min_total_minutes", "min_prep_minutes", "min_cook_minutes", "min_rating",
   "min_review_count", "min_calories", "min_protein", "min_carbs", "min_fat",
   "min_fiber", "min_sugar", "min_sodium", "min_yield"}

\* the max_* keys that some filter statement reads
max_keys ==
  {"max_total_minutes", "max_prep_minutes", "max_cook_minutes", "max_rating",
   "max_calories", "max_protein", "max_carbs", "max_fat",
   "max_fiber", "max_sugar", "max_sodium", "max_yield"}

MinBounds == {5}
MaxBounds == {0, 20}

\* filter sets of one key
OneKey ==
  {[key \in {k} |-> v] : k \in min_keys, v \in MinBounds}
    \cup {[key \in {k} |-> v] : k \in max_keys, v \in MaxBounds}
    \cup {f_cuisine}

\* {**F1, **F2} for filter sets with disjoint keys
Merge(F1, F2) ==
  [key \in DOMAIN F1 \cup DOMAIN F2 |-> IF key \in DOMAIN F1 THEN F1[key] ELSE F2[key]]

d_2019 == <<"2","0","1","9","-","0","6","-","0","1">>
d_2020 == <<"2","0","2","0","-","0","6","-","0","1">>
d_2021 == <<"2","0","2","1","-","0","6","-","0","1">>

\* filter sets with publication date bounds
DateFilterSets ==
  {[min_publication_date |-> d] : d \in {d_2019, d_2021}}
    \cup {[max_publication_date |-> d] : d \in {d_2019, d_2021}}
    \cup {[min_publication_date |-> d_2019, max_publication_date |-> d_2021]}

\* filter sets of at most two keys
FilterSets ==
  {NoFilters} \cup OneKey \cup DateFilterSets
    \cup {Merge(pair[1], pair[2]) :
            pair \in {p \in OneKey \X OneKey : DOMAIN p[1] \cap DOMAIN p[2] = {}}}

\* garlic bread with a sodium value that is no number and a total time of null
RDirty ==
  [R1 EXCEPT !.id = <<"6">>,
             !.times = [t |-> "dict", d |-> [total |-> Null, prep |-> Num(10), cook |-> Num(20)]],
             !.nutrition = [t |-> "dict", d |-> [NoNutrition EXCEPT !.calories = NumStr(250),
                                                                   !.sodium = Text]]]

\* the cake with a publication date, as the parser delivers it
RDated == [R4 EXCEPT !.id = <<"8">>, !.date_published = d_2020]

FilterRecipes == RecipePool \cup {RDirty, RDated}

InitFilter ==
  /\ f_in \in [recipe : FilterRecipes, filters : FilterSets]
  /\ f_out = [op |-> "none"]
  /\ input_file = Idle /\ line_num = Idle /\ build_pc = Idle
  /\ indexer = Idle /\ index_dir = Idle
  /\ corpus = Idle /\ searcher = Idle /\ request = Idle /\ last = Idle
  /\ scan_state = Idle
  /\ seeds = Idle /\ frontier = Idle /\ threads = Idle

\* self._apply_filters(doc_id, filters, recipe_data) of the generic path
ApplyFilters ==
  /\ f_out.op = "none"
  /\ f_out' = [op |-> "_apply_filters",
               outcome |-> ApplyFiltersTo(f_in.recipe, f_in.filters)]
  /\ UNCHANGED <<input_file, line_num, build_pc, indexer, index_dir,
                 corpus, searcher, request, last, f_in, scan_state, seeds, frontier, threads>>

\* self._check_time_filters(recipe_data, filters) of the time-only path
CheckTimeFilters ==
  /\ f_out.op = "none"
  /\ f_in.filters # NoFilters /\ _only_time_filters(f_in.filters)
  /\ f_out' = [op |-> "_check_time_filters",
               outcome |-> _check_time_filters(f_in.recipe, f_in.filters)]
  /\ UNCHANGED <<input_file, line_num, build_pc, indexer, index_dir,
                 corpus, searcher, request, last, f_in, scan_state, seeds, frontier, threads>>

NextFilter == ApplyFilters \/ CheckTimeFilters

SpecFilter == InitFilter /\ [][NextFilter]_vars

----------------------------------------------------------------------------
(* tokenize applied to texts *)

MaxPieces == 3

s_Chicken == <<"C","h","i","c","k","e","n">>
s_Rice == <<"R","i","c","e">>
s_amp == <<"&","a","m","p",";">>

\* the pieces texts are made of
pieces == {s_Chicken, s_Rice, s_amp, w_the, <<"u">>, <<" ">>, <<",">>, <<"4">>, <<"_">>, <<"!","!">>}

\* "Chicken &amp; Rice, serves 4!!"
s_example ==
  s_Chicken \o <<" ">> \o s_amp \o <<" ">> \o s_Rice
    \o <<",", " ", "s","e","r","v","e","s", " ", "4", "!", "!">>

\* the texts of at most MaxPieces pieces, the empty text among them
Texts ==
  {s_example} \cup UNION {{Concat(p) : p \in [1..n -> pieces]} : n \in 0..MaxPieces}

\* the arguments of tokenize: a str, or a value that is not a str (None, a number)
TokenizeInputs == [t : {"str"}, s : Texts] \cup {[t |-> "none", s |-> <<>>], [t |-> "int", s |-> <<>>]}

\* tokenize as called, with its guard on the type of the argument
TokenizeValue(v) == IF v.t # "str" THEN <<>> ELSE tokenize(v.s)

InitTokenize ==
  /\ f_in \in TokenizeInputs
  /\ f_out = [op |-> "none"]
  /\ input_file = Idle /\ line_num = Idle /\ build_pc = Idle
  /\ indexer = Idle /\ index_dir = Idle
  /\ corpus = Idle /\ searcher = Idle /\ request = Idle /\ last = Idle
  /\ scan_state = Idle
  /\ seeds = Idle /\ frontier = Idle /\ threads = Idle

Tokenize ==
  /\ f_out.op = "none"
  /\ f_out' = [op |-> "tokenize", ret |-> TokenizeValue(f_in)]
  /\ UNCHANGED <<input_file, line_num, build_pc, indexer, index_dir, corpus, searcher, request, last, f_in, scan_state, seeds, frontier, threads>>

NextTokenize == Tokenize

SpecTokenize == InitTokenize /\ [][NextTokenize]_vars

----------------------------------------------------------------------------
(* The generic filter-only scan of _filter_all_documents, statement by       *)
(* statement, on an index of many documents.  A document is its position in  *)
(* doc_metadata; a document id is its rank in the order of the ids.          *)

MaxScanDocs == 2001

\* numbers of documents of the loaded index
ScanSizes == {3, 1250, MaxScanDocs}

\* which documents have a corpus record that passes the filters
matchers == {"all", "none", "odd", "late", "last"}

\* recipe_data and self._apply_filters(doc_id, filters, recipe_data=recipe_data)
Matches(matcher, n, position) ==
  IF matcher = "all" THEN TRUE
  ELSE IF matcher = "none" THEN FALSE
  ELSE IF matcher = "odd" THEN position % 2 = 1
  ELSE IF matcher = "late" THEN position > 250
  ELSE position = n

\* the id of the document at a position: docmeta.tsv in the order of the ids or against it
DocIdAt(order, n, position) == IF order = "ascending" THEN position ELSE n + 1 - position

InitScan ==
  /\ scan_state \in [n : ScanSizes, matcher : matchers, order : {"ascending", "descending"},
                     pc : {"start"}, doc_ids : {0}, i : {0}, at : {0}, examined : {0},
                     results : {<<>>}]
  /\ input_file = Idle /\ line_num = Idle /\ build_pc = Idle
  /\ indexer = Idle /\ index_dir = Idle
  /\ corpus = Idle /\ searcher = Idle /\ request = Idle /\ last = Idle
  /\ f_in = Idle /\ f_out = Idle
  /\ seeds = Idle /\ frontier = Idle /\ threads = Idle

ScanUnchanged ==
  UNCHANGED <<input_file, line_num, build_pc, indexer, index_dir,
              corpus, searcher, request, last, f_in, f_out, seeds, frontier, threads>>

\* len(results) >= 1000, off by one
ScanFullLate(results) == Len(results) > max_filter_results

\* len(results) >= 1000
ScanFull(results) == Len(results) >= max_filter_results

\* doc_ids = list(self.doc_metadata.keys())[:max_docs_to_process]
TakeDocIds ==
  /\ scan_state.pc = "start"
  /\ scan_state' = [scan_state EXCEPT !.doc_ids = Min(scan_state.n, max_docs_to_process),
                                      !.pc = "batch"]
  /\ ScanUnchanged

\* for i in range(0, len(doc_ids), batch_size): batch = doc_ids[i:i + batch_size]
NextBatch ==
  /\ scan_state.pc = "batch"
  /\ scan_state' =
       IF scan_state.i < scan_state.doc_ids
         THEN [scan_state EXCEPT !.at = scan_state.i + 1, !.pc = "doc"]
         ELSE [scan_state EXCEPT !.pc = "sort"]
  /\ ScanUnchanged

\* the body of "for doc_id in batch", with its break
ScanDoc ==
  /\ scan_state.pc = "doc"
  /\ LET position == scan_state.at
         hit == Matches(scan_state.matcher, scan_state.n, position)
         results == IF hit
                      THEN Append(scan_state.results,
                                  DocIdAt(scan_state.order, scan_state.n, position))
                      ELSE scan_state.results
         last_of_batch == Min(scan_state.i + generic_batch_size, scan_state.doc_ids)
     IN scan_state' =
          [scan_state EXCEPT
             !.results = results,
             !.examined = position,
             !.at = position + 1,
             !.pc = IF (hit /\ ScanFull(results)) \/ position = last_of_batch
                      THEN "after" ELSE "doc"]
  /\ ScanUnchanged

\* if len(results) >= 1000: break, else the next batch
AfterBatch ==
  /\ scan_state.pc = "after"
  /\ scan_state' =
       IF ScanFull(scan_state.results)
         THEN [scan_state EXCEPT !.pc = "sort"]
         ELSE [scan_state EXCEPT !.i = scan_state.i + generic_batch_size, !.pc = "batch"]
  /\ ScanUnchanged

\* results.sort(key=lambda x: x[0]); return results
SortResults ==
  /\ scan_state.pc = "sort"
  /\ scan_state' = [scan_state EXCEPT
                      !.results = SortSeq(scan_state.results, LAMBDA x, y : x < y),
                      !.pc = "done"]
  /\ ScanUnchanged

NextScan == TakeDocIds \/ NextBatch \/ ScanDoc \/ AfterBatch \/ SortResults

SpecScan == InitScan /\ [][NextScan]_vars

----------------------------------------------------------------------------
(* Crawler, seeds phase: deduplicate_urls over the sitemaps *)

MaxUrls == 4       \* recipe URLs found in all sitemaps together

\* URLs are compared as the strings they are; three of them
UrlPool == {"/recipe/1", "/recipe/2", "/recipe/3"}

\* hashlib.sha1(url.encode('utf-8')).hexdigest(): the digest of the exact text,
\* one digest per text
sha1_url(url) == <<"sha1", url>>

\* the lists recipe_urls_from_sitemap of the sitemaps: flat cut after the positions in cuts
SitemapLists(flat, cuts) ==
  LET E == cuts \cup {Len(flat)}
      ends == [c \in 1..Cardinality(E) |->
                 CHOOSE e \in E : Cardinality({x \in E : x <= e}) = c]
  IN [c \in 1..Cardinality(E) |->
        SubSeq(flat, IF c = 1 THEN 1 ELSE ends[c - 1] + 1, ends[c])]

SitemapInputs ==
  UNION {{SitemapLists(flat, cuts) : flat \in [1..n -> UrlPool], cuts \in SUBSET (1..(n - 1))}
           : n \in 1..MaxUrls}

\* seen_urls: empty in run_seeds_phase, any set of digests for another caller
SeenInputs == {{}, {sha1_url("/recipe/1")}}

InitSeeds ==
  /\ seeds \in [sitemaps : SitemapInputs, supplied : SeenInputs, seen : {{}},
                call : {0}, at : {0}, yielded : {<<>>}, recipe_urls : {<<>>},
                pc : {"start"}]
  /\ input_file = Idle /\ line_num = Idle /\ build_pc = Idle
  /\ indexer = Idle /\ index_dir = Idle
  /\ corpus = Idle /\ searcher = Idle /\ request = Idle /\ last = Idle
  /\ f_in = Idle /\ f_out = Idle /\ scan_state = Idle
  /\ frontier = Idle /\ threads = Idle

SeedsUnchanged ==
  UNCHANGED <<input_file, line_num, build_pc, indexer, index_dir, corpus, searcher,
              request, last, f_in, f_out, scan_state, frontier, threads>>

\* seen_urls: Set[str] = set(); recipe_urls: List[str] = []
StartSeeds ==
  /\ seeds.pc = "start"
  /\ seeds' = [seeds EXCEPT !.seen = seeds.supplied, !.pc = "sitemaps"]
  /\ SeedsUnchanged

\* for sitemap_url in all_sitemap_urls: ... deduplicate_urls(recipe_urls_from_sitemap, seen_urls)
CallDeduplicate ==
  /\ seeds.pc = "sitemaps"
  /\ seeds.call < Len(seeds.sitemaps)
  /\ seeds' = [seeds EXCEPT !.call = seeds.call + 1, !.at = 0,
                            !.yielded = Append(seeds.yielded, <<>>),
                            !.pc = "urls"]
  /\ SeedsUnchanged

\* every url passes the test
IsNewUrlAlways(url, seen) == TRUE

\* url_hash = sha1_url(url); if url_hash not in seen
IsNewUrl(url, seen) == sha1_url(url) \notin seen

\* one turn of "for url in urls" in the generator, and of the caller's loop over what it yields
NextUrl ==
  /\ seeds.pc = "urls"
  /\ seeds.at < Len(seeds.sitemaps[seeds.call])
  /\ LET url == seeds.sitemaps[seeds.call][seeds.at + 1]
     IN seeds' =
          IF IsNewUrl(url, seeds.seen)
            THEN [seeds EXCEPT !.at = seeds.at + 1,
                               !.seen = seeds.seen \cup {sha1_url(url)},
                               !.yielded[seeds.call] = Append(seeds.yielded[seeds.call], url),
                               !.recipe_urls = Append(seeds.recipe_urls, url)]
            ELSE [seeds EXCEPT !.at = seeds.at + 1]
  /\ SeedsUnchanged

\* the generator is exhausted: the caller goes on to the next sitemap
UrlsExhausted ==
  /\ seeds.pc = "urls"
  /\ seeds.at = Len(seeds.sitemaps[seeds.call])
  /\ seeds' = [seeds EXCEPT !.pc = "sitemaps"]
  /\ SeedsUnchanged

\* all sitemaps are processed
SitemapsDone ==
  /\ seeds.pc = "sitemaps"
  /\ seeds.call = Len(seeds.sitemaps)
  /\ seeds' = [seeds EXCEPT !.pc = "done"]
  /\ SeedsUnchanged

NextSeeds == StartSeeds \/ CallDeduplicate \/ NextUrl \/ UrlsExhausted \/ SitemapsDone

SpecSeeds == InitSeeds /\ [][NextSeeds]_vars

----------------------------------------------------------------------------
(* Crawler: the Frontier *)

MaxCalls == 5      \* calls of enqueue and dequeue made on one Frontier

Sources == {"sitemap", "discovered"}

\* dequeue found nothing
None == [url |-> "None", source |-> "None"]

\* CrawlTask(url=url, doc_id=doc_id, source=source, priority=priority)
CrawlTask(url, source) == [url |-> url, source |-> source]

\* Frontier(max_size): queues is a dict from source to deque, kept here as its items in
\* the order in which the keys were inserted
Frontier(max_size) ==
  [max_size |-> max_size, queues |-> <<>>, seen_urls |-> {}, failed_urls |-> {},
   total_enqueued |-> 0, total_dequeued |-> 0,
   source_stats |-> [source \in {} |-> 0], calls |-> <<>>]

\* self.queues[source], without inserting the key
QueueOf(fr, source) ==
  IF \E i \in 1..Len(fr.queues) : fr.queues[i].source = source
    THEN fr.queues[CHOOSE i \in 1..Len(fr.queues) : fr.queues[i].source = source].tasks
    ELSE <<>>

\* self.queues[source].append(task): the defaultdict inserts a new key last
AppendTask(queues, task) ==
  IF \E i \in 1..Len(queues) : queues[i].source = task.source
    THEN [i \in 1..Len(queues) |->
            IF queues[i].source = task.source
              THEN [queues[i] EXCEPT !.tasks = Append(queues[i].tasks, task)]
              ELSE queues[i]]
    ELSE Append(queues, [source |-> task.source, tasks |-> <<task>>])

\* Frontier.enqueue(url, doc_id, source): the frontier after the call and what it returned
enqueue(fr, url, source) ==
  IF url \in fr.seen_urls \/ url \in fr.failed_urls
    THEN [fr |-> fr, returned |-> FALSE]
  ELSE IF Cardinality(fr.seen_urls) >= fr.max_size
    THEN [fr |-> fr, returned |-> FALSE]
  ELSE [fr |-> [fr EXCEPT
                  !.queues = AppendTask(fr.queues, CrawlTask(url, source)),
                  !.seen_urls = fr.seen_urls \cup {url},
                  !.source_stats =
                    [s \in DOMAIN fr.source_stats \cup {source} |->
                       IF s = source
                         THEN (IF s \in DOMAIN fr.source_stats THEN fr.source_stats[s] ELSE 0) + 1
                         ELSE fr.source_stats[s]],
                  !.total_enqueued = fr.total_enqueued + 1],
        returned |-> TRUE]

\* for source in sources: if self.queues[source]: the first key whose deque is not empty
FirstNonEmpty(fr) ==
  CHOOSE i \in 1..Len(fr.queues) :
    /\ fr.queues[i].tasks # <<>>
    /\ \A j \in 1..(i - 1) : fr.queues[j].tasks = <<>>

\* Frontier.dequeue(): the frontier after the call and what it returned
dequeue(fr) ==
  IF fr.queues = <<>> THEN [fr |-> fr, returned |-> None]
  ELSE IF \A i \in 1..Len(fr.queues) : fr.queues[i].tasks = <<>>
    THEN [fr |-> fr, returned |-> None]
  ELSE LET i == FirstNonEmpty(fr)
       IN [fr |-> [fr EXCEPT !.queues[i].tasks = Tail(fr.queues[i].tasks),
                             !.total_dequeued = fr.total_dequeued + 1],
           returned |-> Head(fr.queues[i].tasks)]

InitFrontier ==
  /\ frontier \in {Frontier(max_size) : max_size \in {2, 1000000}}
  /\ input_file = Idle /\ line_num = Idle /\ build_pc = Idle
  /\ indexer = Idle /\ index_dir = Idle
  /\ corpus = Idle /\ searcher = Idle /\ request = Idle /\ last = Idle
  /\ f_in = Idle /\ f_out = Idle /\ scan_state = Idle
  /\ seeds = Idle /\ threads = Idle

FrontierUnchanged ==
  UNCHANGED <<input_file, line_num, build_pc, indexer, index_dir, corpus, searcher,
              request, last, f_in, f_out, scan_state, seeds, threads>>

\* the crawler calls frontier.enqueue(url, doc_id, source)
Enqueue ==
  /\ Len(frontier.calls) < MaxCalls
  /\ \E url \in UrlPool, source \in Sources :
       \E out \in {enqueue(frontier, url, source)} :
         frontier' = [out.fr EXCEPT
                        !.calls = Append(frontier.calls,
                                         [op |-> "enqueue", task |-> CrawlTask(url, source),
                                          returned |-> out.returned])]
  /\ FrontierUnchanged

\* the crawler calls frontier.dequeue()
Dequeue ==
  /\ Len(frontier.calls) < MaxCalls
  /\ \E out \in {dequeue(frontier)} :
       frontier' = [out.fr EXCEPT
                      !.calls = Append(frontier.calls,
                                       [op |-> "dequeue", task |-> out.returned,
                                        returned |-> out.returned # None])]
  /\ FrontierUnchanged

NextFrontier == Enqueue \/ Dequeue

SpecFrontier == InitFrontier /\ [][NextFrontier]_vars

----------------------------------------------------------------------------
(* The HTTP server: request threads calling the one shared searcher.  The    *)
(* interpreter may switch threads between any two reads and writes of the   *)
(* shared dictionaries; a thread's own values are its registers.            *)

MaxThreads == 2    \* requests served at the same time
MaxResults == 2    \* len(results) of a ranked search

\* the filter sets of the filter-only requests, by cache key
FilterKeys == {"[('cuisine', ['Italian'])]", "[('max_total_minutes', 30)]"}

\* the list the scan of the read-only index gives for a filter set
ScanResults(key) == IF key = "[('max_total_minutes', 30)]" THEN <<"1", "2">> ELSE <<"2">>

\* what a request thread runs: a ranked search that reaches the statistics with its sorted
\* results, or a filter-only search that goes through _filter_all_documents
ThreadCalls ==
  [kind : {"ranked"}, results : 1..MaxResults, key : {"none"}]
    \cup [kind : {"filter_only"}, results : {0}, key : FilterKeys]

\* the thread at the start of its call
NewThread(call) ==
  [call |-> call, pc |-> IF call.kind = "ranked" THEN "queries_load" ELSE "cache_lookup",
   reg |-> <<>>, ret |-> <<>>]

InitThreads ==
  /\ threads \in [stats : {[queries_processed |-> 0, total_results |-> 0,
                            avg_results_per_query |-> <<0, 1>>]},
                  _filter_cache : {<<>>},
                  t : [1..MaxThreads -> {NewThread(call) : call \in ThreadCalls}]]
  /\ input_file = Idle /\ line_num = Idle /\ build_pc = Idle
  /\ indexer = Idle /\ index_dir = Idle
  /\ corpus = Idle /\ searcher = Idle /\ request = Idle /\ last = Idle
  /\ f_in = Idle /\ f_out = Idle /\ scan_state = Idle
  /\ seeds = Idle /\ frontier = Idle

ThreadsUnchanged ==
  UNCHANGED <<input_file, line_num, build_pc, indexer, index_dir, corpus, searcher,
              request, last, f_in, f_out, scan_state, seeds, frontier>>

\* thread i moves to pc with the registers reg; the shared stats become stats
ThreadStep(i, pc, reg, stats) ==
  threads' = [threads EXCEPT !.t[i].pc = pc, !.t[i].reg = reg, !.stats = stats]

\* self.stats['queries_processed'] += 1: the read
QueriesLoad(i) ==
  /\ threads.t[i].pc = "queries_load"
  /\ ThreadStep(i, "queries_store", <<threads.stats.queries_processed>>, threads.stats)
  /\ ThreadsUnchanged

\* self.stats['queries_processed'] += 1: the write
QueriesStore(i) ==
  /\ threads.t[i].pc = "queries_store"
  /\ ThreadStep(i, "total_load", <<>>,
                [threads.stats EXCEPT !.queries_processed = threads.t[i].reg[1] + 1])
  /\ ThreadsUnchanged

\* self.stats['total_results'] += len(results): the read, before len(results) is called
TotalLoad(i) ==
  /\ threads.t[i].pc = "total_load"
  /\ ThreadStep(i, "total_store", <<threads.stats.total_results>>, threads.stats)
  /\ ThreadsUnchanged

\* self.stats['total_results'] += len(results): the write
TotalStore(i) ==
  /\ threads.t[i].pc = "total_store"
  /\ ThreadStep(i, "avg_load_total", <<>>,
                [threads.stats EXCEPT
                   !.total_results = threads.t[i].reg[1] + threads.t[i].call.results])
  /\ ThreadsUnchanged

\* self.stats['total_results'] / ...: the read of the dividend
AvgLoadTotal(i) ==
  /\ threads.t[i].pc = "avg_load_total"
  /\ ThreadStep(i, "avg_load_queries", <<threads.stats.total_results>>, threads.stats)
  /\ ThreadsUnchanged

\* ... / self.stats['queries_processed']: the read of the divisor
AvgLoadQueries(i) ==
  /\ threads.t[i].pc = "avg_load_queries"
  /\ ThreadStep(i, "avg_store",
                <<threads.t[i].reg[1], threads.stats.queries_processed>>, threads.stats)
  /\ ThreadsUnchanged

\* self.stats['avg_results_per_query'] = ...: the write; the call returns
AvgStore(i) ==
  /\ threads.t[i].pc = "avg_store"
  /\ ThreadStep(i, "done", <<>>,
                [threads.stats EXCEPT !.avg_results_per_query = threads.t[i].reg])
  /\ ThreadsUnchanged

\* if cache_key in self._filter_cache: return self._filter_cache[cache_key]
CacheLookup(i) ==
  /\ threads.t[i].pc = "cache_lookup"
  /\ threads' =
       IF threads.t[i].call.key \in DOMAIN threads._filter_cache
         THEN [threads EXCEPT !.t[i].pc = "done",
                              !.t[i].ret = threads._filter_cache[threads.t[i].call.key]]
         ELSE [threads EXCEPT !.t[i].pc = "scan"]
  /\ ThreadsUnchanged

\* the scan, then self._filter_cache[cache_key] = results; return results
CacheWrite(i) ==
  /\ threads.t[i].pc = "scan"
  /\ LET key == threads.t[i].call.key
     IN threads' =
          [threads EXCEPT
             !.t[i].pc = "done", !.t[i].ret = ScanResults(key),
             !._filter_cache =
               [entry \in DOMAIN threads._filter_cache \cup {key} |->
                  IF entry = key THEN ScanResults(key) ELSE threads._filter_cache[entry]]]
  /\ ThreadsUnchanged

NextThreads ==
  \E i \in 1..MaxThreads :
    \/ QueriesLoad(i) \/ QueriesStore(i) \/ TotalLoad(i) \/ TotalStore(i)
    \/ AvgLoadTotal(i) \/ AvgLoadQueries(i) \/ AvgStore(i)
    \/ CacheLookup(i) \/ CacheWrite(i)

SpecThreads == InitThreads /\ [][NextThreads]_vars

----------------------------------------------------------------------------
(* Properties of the build *)

\* the terms of the three indexed fields of an input line
FieldTerms(line) ==
  Range(tokenize(strip(line.title)))
    \cup Range(tokenize(join(<<" ">>, SelectSeq(line.ingredients, Truthy))))
    \cup Range(tokenize(join(<<" ">>, SelectSeq(line.instructions, Truthy))))

\* the ids of the input documents that are indexed and contain the term
DocumentsContaining(term) ==
  {input_file[i].id : i \in {j \in 1..Len(input_file) :
                               /\ input_file[j].kind = "recipe"
                               /\ input_file[j].id # <<>>
                               /\ term \in FieldTerms(input_file[j])}}

\* C5: after build_index completes, the stored df of every term is the number
\* of distinct indexed documents that contain the term in at least one field,
\* hence 1 <= df <= total_docs.
C5_DfCountsDocuments ==
  build_pc = "done" =>
    \A term \in DOMAIN indexer.terms :
      /\ indexer.terms[term][1] = Cardinality(DocumentsContaining(term))
      /\ 1 <= indexer.terms[term][1]
      /\ indexer.terms[term][1] <= indexer.total_docs

\* C6: the build is two-phase.  While lines are read and until total_docs is
\* fixed no term carries an idf; the files are written only at the end; when
\* the build is finished every term has df >= 1 and its idf, in memory and in
\* terms.tsv, is ln(total_docs / df) of the final total_docs and df.
C6_TwoPhaseIdf ==
  /\ build_pc \in {"read", "idf"} =>
       \A term \in DOMAIN indexer.terms : Len(indexer.terms[term]) = 1
  /\ build_pc = "read" => indexer.total_docs = 0
  /\ build_pc # "done" => index_dir = NoFiles
  /\ build_pc \in {"idf", "save", "done"} =>
       indexer.total_docs = Cardinality(DOMAIN indexer.doc_metadata)
  /\ build_pc \in {"save", "done"} /\ indexer.total_docs > 0 =>
       \A term \in DOMAIN indexer.terms :
         /\ indexer.terms[term][1] >= 1
         /\ indexer.terms[term][2] = Log(indexer.total_docs, indexer.terms[term][1])
  /\ build_pc = "done" =>
       /\ {TermsRows(index_dir.terms)[i][1] : i \in 1..Len(TermsRows(index_dir.terms))}
            = DOMAIN indexer.terms
       /\ \A i \in 1..Len(TermsRows(index_dir.terms)) :
            /\ TermsRows(index_dir.terms)[i][2] >= 1
            /\ TermsRows(index_dir.terms)[i][3]
                 = Log(indexer.total_docs, TermsRows(index_dir.terms)[i][2])

\* a finished build of at least two documents that stored a nonzero idf
C6_Witness ==
  /\ build_pc = "done"
  /\ indexer.total_docs >= 2
  /\ line_num = Len(input_file)
  /\ \E i \in 1..Len(TermsRows(index_dir.terms)) : TermsRows(index_dir.terms)[i][3] # 0

\* the input line that gave document d its metadata: the last record read with that id
SourceRecord(d) ==
  input_file[CHOOSE i \in 1..line_num :
               /\ input_file[i].kind = "recipe" /\ input_file[i].id = d
               /\ \A j \in (i + 1)..line_num :
                    ~(input_file[j].kind = "recipe" /\ input_file[j].id = d)]

\* C17: every indexed document stores, per field, the number of tokens of that
\* field of its source record, and a searcher loaded from the written files
\* holds the same documents with the same three lengths.
C17_LengthsRoundTrip ==
  /\ \A d \in DOMAIN indexer.doc_metadata :
       LET meta == indexer.doc_metadata[d]
           line == SourceRecord(d)
       IN /\ meta.len_title = Len(tokenize(strip(line.title)))
          /\ meta.len_ing = Len(tokenize(join(<<" ">>, SelectSeq(line.ingredients, Truthy))))
          /\ meta.len_instr = Len(tokenize(join(<<" ">>, SelectSeq(line.instructions, Truthy))))
  /\ searcher # Idle =>
       /\ Range(searcher.doc_metadata.keys) = DOMAIN indexer.doc_metadata
       /\ \A d \in DOMAIN indexer.doc_metadata :
            /\ searcher.doc_metadata.at[d].len_title = indexer.doc_metadata[d].len_title
            /\ searcher.doc_metadata.at[d].len_ing = indexer.doc_metadata[d].len_ing
            /\ searcher.doc_metadata.at[d].len_instr = indexer.doc_metadata[d].len_instr

\* a searcher loaded from a build of three documents, one with a tab in its
\* title and one with a field of length zero and a field of length three
C17_Witness ==
  /\ searcher # Idle
  /\ Cardinality(DOMAIN indexer.doc_metadata) = 3
  /\ <<"7">> \in DOMAIN indexer.doc_metadata
  /\ searcher.doc_metadata.at[<<"7">>].len_title = 2
  /\ \E d \in DOMAIN indexer.doc_metadata :
       searcher.doc_metadata.at[d].len_instr = 0

\* a record with an id whose three fields all tokenize to the empty sequence
EmptyRecord(line) == line.kind = "recipe" /\ line.id # <<>> /\ FieldTerms(line) = {}

\* C18: reading a record with a non-empty id and no token in any field adds no
\* metadata entry, no term and no posting, adds exactly 1 to empty_docs and
\* leaves processing_errors unchanged; a build from only such a record ends
\* with zero indexed documents and empty_docs = 1.
C18_EmptyDocumentSkipped ==
  [][/\ (/\ build_pc = "read" /\ line_num' = line_num + 1
         /\ EmptyRecord(input_file[line_num + 1]))
        => /\ indexer'.doc_metadata = indexer.doc_metadata
           /\ indexer'.terms = indexer.terms
           /\ indexer'.postings = indexer.postings
           /\ indexer'.stats.empty_docs = indexer.stats.empty_docs + 1
           /\ indexer'.stats.processing_errors = indexer.stats.processing_errors
     /\ (/\ build_pc = "save" /\ build_pc' = "done"
         /\ Len(input_file) = 1 /\ EmptyRecord(input_file[1]))
        => /\ indexer'.total_docs = 0
           /\ indexer'.doc_metadata = <<>>
           /\ indexer'.stats.empty_docs = 1
           /\ indexer'.stats.processing_errors = 0
           /\ index_dir'.terms = terms_header /\ index_dir'.postings = postings_header
           /\ index_dir'.docmeta = docmeta_header]_vars

\* a finished build that skipped one empty record among two indexed ones
C18_Witness ==
  /\ build_pc = "done"
  /\ \E i \in 1..Len(input_file) : EmptyRecord(input_file[i])
  /\ indexer.stats.empty_docs = 1
  /\ indexer.stats.processing_errors = 0
  /\ indexer.total_docs = 2

\* a line that json.loads rejects, or a record without id
BadInput(line) == line.kind = "malformed" \/ line.id = <<>>

GoodInput(line) == ~BadInput(line)

\* C19: reading a malformed line or a record without id adds exactly 1 to
\* processing_errors, changes nothing else and the loop goes on; the finished
\* index, in memory and on disk, is the one built from the input without the
\* bad lines, but for the error count.
C19_BadLinesSkipped ==
  [][/\ (/\ build_pc = "read" /\ line_num' = line_num + 1
         /\ BadInput(input_file[line_num + 1]))
        => /\ indexer' = [indexer EXCEPT !.stats.processing_errors = @ + 1]
           /\ build_pc' = "read"
     /\ (build_pc = "save" /\ build_pc' = "done")
        => LET good == SelectSeq(input_file, GoodInput)
               clean == _calculate_idf(FinalStatistics(BuildFrom(NewIndexer, good)))
           IN /\ indexer' = [clean EXCEPT !.stats.processing_errors =
                                            Len(input_file) - Len(good)]
              /\ index_dir' = _save_index(clean)]_vars

\* a finished build whose second line was malformed, between two indexed records
C19_Witness ==
  /\ build_pc = "done"
  /\ Len(input_file) = 3
  /\ input_file[2].kind = "malformed"
  /\ indexer.total_docs = 2
  /\ indexer.stats.processing_errors = 1

\* C20: constructing a searcher raises, and leaves no searcher object, when
\* the index directory or one of the three files is missing
\* (FileNotFoundError) and when docmeta.tsv yields no metadata entry
\* (ValueError); a searcher object exists only after a load of all three
\* files that found at least one document.
C20_LoadFailsOnIncompleteIndex ==
  [][/\ (last = Idle /\ last' # Idle) =>
          /\ (~index_dir.exists \/ index_dir.files # index_files)
               => last'.raised = "FileNotFoundError" /\ searcher' = Idle
          /\ (/\ index_dir.exists /\ index_dir.files = index_files
              /\ DocmetaRows(index_dir.docmeta) = <<>>)
               => last'.raised = "ValueError" /\ searcher' = Idle
     /\ searcher' # Idle =>
          /\ last'.raised = "none"
          /\ index_dir'.exists /\ index_dir'.files = index_files
          /\ searcher'.total_docs > 0
          /\ searcher'.total_docs = Cardinality(DOMAIN indexer'.doc_metadata)]_vars

\* a load that failed on a finished index of two documents without postings.tsv
C20_Witness ==
  /\ build_pc = "done"
  /\ indexer.total_docs = 2
  /\ index_dir.exists
  /\ index_dir.files = {"terms.tsv", "docmeta.tsv"}
  /\ last # Idle
  /\ last.raised = "FileNotFoundError"
  /\ searcher = Idle

\* C26: with min_publication_date and/or max_publication_date among the
\* filters, a record whose date_published is earlier than the minimum or
\* later than the maximum is rejected, and a record whose date lies within
\* the bounds is accepted (no other key is set).
C26_PublicationDateBounds ==
  (/\ f_out.op = "_apply_filters"
   /\ f_in.recipe.date_published # <<>>
   /\ DOMAIN f_in.filters # {}
   /\ DOMAIN f_in.filters \subseteq {"min_publication_date", "max_publication_date"}) =>
    LET date == f_in.recipe.date_published
        early == /\ "min_publication_date" \in DOMAIN f_in.filters
                 /\ StrLess(date, f_in.filters["min_publication_date"])
        late == /\ "max_publication_date" \in DOMAIN f_in.filters
                /\ StrLess(f_in.filters["max_publication_date"], date)
    IN f_out.outcome = (IF early \/ late THEN "false" ELSE "true")

\* the maximal runs of ASCII letters of s from position i on, in order
RECURSIVE LetterRuns(_, _)
LetterRuns(s, i) ==
  IF i > Len(s) THEN <<>>
  ELSE IF ~IsAsciiLetter(s[i]) THEN LetterRuns(s, i + 1)
  ELSE LET e == CHOOSE k \in i..Len(s) :
                  /\ \A j \in i..k : IsAsciiLetter(s[j])
                  /\ (k = Len(s) \/ ~IsAsciiLetter(s[k + 1]))
       IN <<SubSeq(s, i, e)>> \o LetterRuns(s, e + 1)

\* C25: tokenize returns, in input order, the lowercased maximal runs of
\* ASCII letters of the text without its entity escapes that are longer than
\* one character and no stopwords, whatever digits and punctuation stand next
\* to them; an empty text or an argument that is no str gives the empty
\* sequence; "Chicken &amp; Rice, serves 4!!" gives chicken, rice, serves.
C25_TokenizeLetterRuns ==
  f_out.op = "tokenize" =>
    /\ f_in.t # "str" => f_out.ret = <<>>
    /\ f_in.t = "str" =>
         f_out.ret = SelectSeq(LetterRuns(lower(StripEntities(f_in.s, 1)), 1), KeepWord)
    /\ (f_in.t = "str" /\ f_in.s = s_example) =>
         f_out.ret = <<lower(s_Chicken), lower(s_Rice), <<"s","e","r","v","e","s">>>>

\* C24: for every term of the loaded index and every field, with the stored
\* idf of the term, the BM25 term score does not decrease when tf grows by
\* one at a fixed field length, and does not increase when the field length
\* grows by one at a fixed tf.
C24_Bm25Monotone ==
  searcher.total_docs > 0 =>
    \A term \in DOMAIN searcher.terms :
      \A field \in {"title", "ingredients", "instructions"} :
        \A tf \in 1..MaxTf : \A doc_length \in 0..MaxFieldLength :
          /\ TermScore(searcher, term, field, tf + 1, doc_length)
               >= TermScore(searcher, term, field, tf, doc_length)
          /\ TermScore(searcher, term, field, tf, doc_length + 1)
               <= TermScore(searcher, term, field, tf, doc_length)

\* the rows are in non-decreasing order of their first column
SortedByKey(rows) ==
  \A i \in 1..(Len(rows) - 1) : rows[i][1] = rows[i + 1][1] \/ StrLess(rows[i][1], rows[i + 1][1])

\* no two rows agree on their first n columns
OneRowPerKey(rows, n) ==
  \A i, j \in 1..Len(rows) : i # j => SubSeq(rows[i], 1, n) # SubSeq(rows[j], 1, n)

\* C23: during the build the metadata of a document, once created, does not
\* change; the saved files hold one postings row per (term, field, document),
\* one docmeta row per indexed document and one terms row per term, ordered
\* by term (terms.tsv, postings.tsv) and by document id (docmeta.tsv), and are
\* the files any build from the same input writes.
C23_OneRowPerTripleSorted ==
  [][/\ (indexer # Idle /\ indexer' # Idle) =>
          \A d \in DOMAIN indexer.doc_metadata :
            /\ d \in DOMAIN indexer'.doc_metadata
            /\ indexer'.doc_metadata[d] = indexer.doc_metadata[d]
     /\ (build_pc = "save" /\ build_pc' = "done") =>
          /\ OneRowPerKey(PostingsRows(index_dir'.postings), 3)
          /\ OneRowPerKey(DocmetaRows(index_dir'.docmeta), 1)
          /\ OneRowPerKey(TermsRows(index_dir'.terms), 1)
          /\ {DocmetaRows(index_dir'.docmeta)[i][1] :
                i \in 1..Len(DocmetaRows(index_dir'.docmeta))} = DOMAIN indexer.doc_metadata
          /\ SortedByKey(TermsRows(index_dir'.terms))
          /\ SortedByKey(PostingsRows(index_dir'.postings))
          /\ SortedByKey(DocmetaRows(index_dir'.docmeta))
          /\ index_dir' = build_index(input_file)]_vars

\* C22: once a searcher is loaded, no search_tfidf, search_bm25 or
\* get_total_results call changes its term dictionary, its postings map (no
\* key added, none removed, no list changed) or its document metadata.
C22_IndexReadOnly ==
  [][(searcher # Idle /\ searcher' # Idle) =>
       /\ searcher'.terms = searcher.terms
       /\ DOMAIN searcher'.postings = DOMAIN searcher.postings
       /\ searcher'.postings = searcher.postings
       /\ searcher'.doc_metadata = searcher.doc_metadata
       /\ searcher'.total_docs = searcher.total_docs]_vars

\* C28: after a successful load every postings key is a dictionary term and
\* every posting names a document with a metadata entry; a BM25 search does
\* not raise, and it returns a non-empty first page when a query term has
\* postings (no filters are set).
C28_LoadedIndexConsistent ==
  searcher # Idle =>
    /\ \A term \in DOMAIN searcher.postings :
         /\ term \in DOMAIN searcher.terms
         /\ \A i \in 1..Len(searcher.postings[term]) :
              searcher.postings[term][i][2] \in Range(searcher.doc_metadata.keys)
    /\ last.op = "search_bm25" =>
         /\ ~last.raised
         /\ (\E term \in Range(tokenize(request.query)) :
               /\ term \in DOMAIN searcher.terms
               /\ term \in DOMAIN searcher.postings
               /\ searcher.postings[term] # <<>>)
              => last.ret # <<>>

\* the data lines of a file, without the header line
DataLines(text) == Range(Tail(FileLines(text)))

\* a line as written, without its newline
Chop(line) == SubSeq(line, 1, Len(line) - 1)

\* the terms, postings and documents of the saved index whose line is still in its file
IntactTerms ==
  {term \in DOMAIN indexer.terms :
     Chop(TermsLine(term, indexer.terms[term])) \in DataLines(index_dir.terms)}

IntactPostings(term) ==
  SelectSeq(indexer.postings[term],
            LAMBDA posting : Chop(PostingsLine(term, posting)) \in DataLines(index_dir.postings))

IntactDocs ==
  {d \in DOMAIN indexer.doc_metadata :
     Chop(DocmetaLine(d, indexer.doc_metadata[d])) \in DataLines(index_dir.docmeta)}

\* C21: when one row of one index file is malformed (a column missing, a
\* column too many, a word for a number) or a header differs, the load
\* succeeds as long as one document row remains, the malformed row gives no
\* entry, and every other row of the file is loaded as written.
C21_MalformedRowsSkipped ==
  (last # Idle /\ last.op = "__init__") =>
    /\ last.raised = (IF IntactDocs = {} THEN "ValueError" ELSE "none")
    /\ searcher # Idle =>
         /\ DOMAIN searcher.terms = IntactTerms
         /\ \A term \in IntactTerms : searcher.terms[term] = indexer.terms[term]
         /\ \A term \in IntactTerms :
              IF term \in DOMAIN searcher.postings
                THEN searcher.postings[term] = IntactPostings(term)
                ELSE IntactPostings(term) = <<>>
         /\ Range(searcher.doc_metadata.keys) = IntactDocs
         /\ \A d \in IntactDocs :
              /\ searcher.doc_metadata.at[d].len_title = indexer.doc_metadata[d].len_title
              /\ searcher.doc_metadata.at[d].len_ing = indexer.doc_metadata[d].len_ing
              /\ searcher.doc_metadata.at[d].len_instr = indexer.doc_metadata[d].len_instr

----------------------------------------------------------------------------
(* Properties of the search calls.  last is the call made in the step that  *)
(* led to the state; a companion call is evaluated on the searcher as that  *)
(* call left it, over the same corpus.                                      *)

IsSearch == last.op \in {"search_tfidf", "search_bm25"}

\* the search method of the last call, called again with other arguments
SearchAgain(k, filters, offset) ==
  IF last.op = "search_tfidf"
    THEN search_tfidf(searcher, request.query, k, filters, offset)
    ELSE search_bm25(searcher, request.query, k, filters, offset)

\* xs[n : n + m]
Page(xs, n, m) == [i \in 1..(IF Len(xs) - n < m THEN (IF Len(xs) < n THEN 0 ELSE Len(xs) - n) ELSE m) |-> xs[n + i]]

Ids(results) == {results[i][1] : i \in 1..Len(results)}

HasTerms == tokenize(request.query) # <<>>

\* a limit no result list exceeds
Unbounded == searcher.total_docs

\* C1: for a query with terms and a non-empty filter set, under either metric,
\* every returned document passes the filters and only documents that pass
\* have an entry in the score accumulators.
C1_FiltersAppliedInline ==
  (IsSearch /\ HasTerms /\ request.filters # NoFilters) =>
    /\ \A d \in Ids(last.ret) : _apply_filters(d, request.filters) = "true"
    /\ \A d \in Ids(last.results) : _apply_filters(d, request.filters) = "true"
    /\ \A i \in 1..Len(last.scored) : _apply_filters(last.scored[i], request.filters) = "true"

\* a filtered ranked call returned a document while another document that
\* matches the query was kept out by the filters
C1_Witness ==
  /\ IsSearch /\ HasTerms /\ request.filters # NoFilters
  /\ last.ret # <<>>
  /\ \E d \in Ids(SearchAgain(Unbounded, NoFilters, 0).ret) :
       _apply_filters(d, request.filters) = "false"

\* C2: search(q, offset = 0, limit = n + m)[n : n + m] = search(q, offset = n, limit = m)
\* for the same query, filters and metric, on the ranked and on the filter-only path.
C2_PaginationLaw ==
  IsSearch =>
    Page(SearchAgain(last.offset + last.k, request.filters, 0).ret, last.offset, last.k)
      = last.ret

\* a ranked page that starts behind the first result and is not empty
C2_Witness ==
  /\ IsSearch /\ last.path = "ranked"
  /\ last.offset >= 1 /\ last.k >= 1
  /\ last.ret # <<>>
  /\ Len(last.results) > last.offset + 1

\* C3 as stated: for a fixed metric, query, offset and limit and a non-empty
\* filter set, the ids returned without filters include the ids returned with
\* the filters.
C3_SupersetPerPage ==
  (IsSearch /\ request.filters # NoFilters) =>
    Ids(last.ret) \subseteq Ids(SearchAgain(last.k, NoFilters, last.offset).ret)

\* C3 amended: for a query with at least one term, the ids of the complete
\* result list (offset 0, a limit that cuts nothing) without filters include
\* the ids of the complete result list with the filters.
C3_SupersetOfFullLists ==
  (IsSearch /\ HasTerms /\ request.filters # NoFilters) =>
    Ids(SearchAgain(Unbounded, request.filters, 0).ret)
      \subseteq Ids(SearchAgain(Unbounded, NoFilters, 0).ret)

\* a filtered ranked query whose complete list is not empty and smaller than the unfiltered one
C3_Witness ==
  /\ IsSearch /\ HasTerms /\ request.filters # NoFilters
  /\ SearchAgain(Unbounded, request.filters, 0).ret # <<>>
  /\ Ids(SearchAgain(Unbounded, request.filters, 0).ret)
       # Ids(SearchAgain(Unbounded, NoFilters, 0).ret)

\* C4: get_total_results(query, filters) is the number of documents that
\* search returns for the same query and filters with offset 0 and no limit,
\* under TF-IDF and under BM25.
C4_TotalIsSearchCount ==
  last.op = "get_total_results" =>
    /\ last.count = Len(search_tfidf(searcher, request.query, Unbounded, request.filters, 0).ret)
    /\ last.count = Len(search_bm25(searcher, request.query, Unbounded, request.filters, 0).ret)

\* position of a document in the order in which the documents were first scored
ScoredAt(d) == CHOOSE i \in 1..Len(last.scored) : last.scored[i] = d

\* C7: the complete match list is sorted by score, descending, before offset
\* and limit are applied: the page is results[offset : offset + limit] of the
\* sorted list, scores do not increase along the list, and documents with
\* equal scores keep the order in which they were first scored.
C7_SortedThenPaged ==
  (IsSearch /\ last.path = "ranked" /\ ~last.raised) =>
    /\ last.ret = Page(last.results, last.offset, last.k)
    /\ Ids(last.results) \subseteq Range(last.scored)
    /\ last.op = "search_bm25" => Ids(last.results) = Range(last.scored)
    /\ \A i, j \in 1..Len(last.results) :
         i < j =>
           /\ last.results[i][1] # last.results[j][1]
           /\ last.results[i][2] >= last.results[j][2]
           /\ last.results[i][2] = last.results[j][2] =>
                ScoredAt(last.results[i][1]) < ScoredAt(last.results[j][1])
    /\ \A i \in 1..(Len(last.ret) - 1) : last.ret[i][2] >= last.ret[i + 1][2]

\* a page cut behind the first result of a list of three that holds a tie and two different scores
C7_Witness ==
  /\ IsSearch /\ last.path = "ranked" /\ ~last.raised
  /\ Len(last.results) = 3
  /\ \E i \in 1..2 : last.results[i][2] = last.results[i + 1][2]
  /\ last.results[1][2] # last.results[3][2]
  /\ last.offset = 1 /\ Len(last.ret) = 1

\* C8: a ranked search returns a document only if the document has a posting
\* for a query term of the dictionary; a query with terms none of which is in
\* the dictionary returns the empty list, without an error, under both metrics.
C8_OnlyDictionaryMatches ==
  (IsSearch /\ HasTerms) =>
    /\ \A d \in Ids(last.ret) :
         \E term \in Range(tokenize(request.query)) \cap DOMAIN searcher.terms :
           /\ term \in DOMAIN searcher.postings
           /\ \E i \in 1..Len(searcher.postings[term]) : searcher.postings[term][i][2] = d
    /\ Range(tokenize(request.query)) \cap DOMAIN searcher.terms = {} =>
         last.ret = <<>> /\ ~last.raised

\* a query with a term of the dictionary and a term outside it returned some
\* document of a corpus of several
C8_Witness ==
  /\ IsSearch /\ HasTerms
  /\ Range(tokenize(request.query)) \ DOMAIN searcher.terms # {}
  /\ last.ret # <<>>
  /\ Ids(last.ret) # Range(searcher.doc_metadata.keys)

\* C12: a filter key present with the value 0 is enforced like any other
\* bound: when every record of the corpus declares a total time greater than
\* 0, the empty query with the filter set {max_total_minutes: 0} returns the
\* empty list, and no error.
C12_ZeroBoundEnforced ==
  (/\ IsSearch /\ request.query = q_empty /\ request.filters = f_zero
   /\ \A i \in 1..Len(corpus) :
        corpus[i].times.d.total.t = "num" /\ corpus[i].times.d.total.v > 0) =>
    last.ret = <<>> /\ ~last.raised

\* C16: the running statistics follow the calls: every search call adds 1 to
\* queries_processed and the number of results it returns to total_results,
\* and leaves avg_results_per_query = total_results / queries_processed.
C16_StatsFollowCalls ==
  [][last'.op \in {"search_tfidf", "search_bm25"} =>
       /\ searcher'.stats.queries_processed = searcher.stats.queries_processed + 1
       /\ searcher'.stats.total_results = searcher.stats.total_results + Len(last'.ret)
       /\ searcher'.stats.avg_results_per_query =
            <<searcher'.stats.total_results, searcher'.stats.queries_processed>>
    ]_vars

----------------------------------------------------------------------------
(* Properties of the filter engine *)

\* the filter keys whose statements read an attribute of the record
readers ==
  [times |-> time_filter_keys,
   ratings |-> {"min_rating", "max_rating", "min_review_count"},
   nutrition |-> {"min_calories", "max_calories", "min_protein", "max_protein",
                  "min_carbs", "max_carbs", "min_fat", "max_fat", "min_fiber",
                  "max_fiber", "min_sugar", "max_sugar", "min_sodium", "max_sodium"},
   yield |-> {"min_yield", "max_yield"}]

\* the record with one attribute removed
Without(recipe, attr) ==
  IF attr = "times" THEN [recipe EXCEPT !.times = BlankRecipe.times]
  ELSE IF attr = "ratings" THEN [recipe EXCEPT !.ratings = BlankRecipe.ratings]
  ELSE IF attr = "nutrition" THEN [recipe EXCEPT !.nutrition = BlankRecipe.nutrition]
  ELSE [recipe EXCEPT !.yield = BlankRecipe.yield]

\* the filter set restricted to some of its keys
Restrict(filters, keys) == [key \in keys |-> filters[key]]

\* C9: passes(d, F) is the conjunction of the predicates of the keys present
\* in F: passes(d, {}) is true; for every split of F into two filter sets with
\* disjoint keys, passes(d, F) holds exactly when both parts pass; and a key
\* absent from F never causes rejection, that is, an attribute that only
\* absent keys read has no influence on the outcome.
C9_ConjunctionOfPresentKeys ==
  f_out.op = "_apply_filters" =>
    /\ ApplyFiltersTo(f_in.recipe, NoFilters) = "true"
    /\ \A keys \in SUBSET DOMAIN f_in.filters :
         (f_out.outcome = "true") <=>
           /\ ApplyFiltersTo(f_in.recipe, Restrict(f_in.filters, keys)) = "true"
           /\ ApplyFiltersTo(f_in.recipe,
                             Restrict(f_in.filters, DOMAIN f_in.filters \ keys)) = "true"
    /\ \A attr \in DOMAIN readers :
         readers[attr] \cap DOMAIN f_in.filters = {} =>
           f_out.outcome = ApplyFiltersTo(Without(f_in.recipe, attr), f_in.filters)

\* the attribute value that a numeric bound key is about
Quantity(recipe, key) ==
  IF key \in {"min_total_minutes", "max_total_minutes"} THEN recipe.times.d.total
  ELSE IF key \in {"min_prep_minutes", "max_prep_minutes"} THEN recipe.times.d.prep
  ELSE IF key \in {"min_cook_minutes", "max_cook_minutes"} THEN recipe.times.d.cook
  ELSE IF key \in {"min_rating", "max_rating"} THEN RatingRaw(recipe.ratings.d)
  ELSE IF key = "min_review_count" THEN ReviewCountRaw(recipe.ratings.d)
  ELSE IF key \in {"min_calories", "max_calories"} THEN recipe.nutrition.d.calories
  ELSE IF key \in {"min_protein", "max_protein"} THEN recipe.nutrition.d.protein
  ELSE IF key \in {"min_carbs", "max_carbs"} THEN CarbsRaw(recipe.nutrition.d)
  ELSE IF key \in {"min_fat", "max_fat"} THEN recipe.nutrition.d.fat
  ELSE IF key \in {"min_fiber", "max_fiber"} THEN recipe.nutrition.d.fiber
  ELSE IF key \in {"min_sugar", "max_sugar"} THEN recipe.nutrition.d.sugar
  ELSE IF key \in {"min_sodium", "max_sodium"} THEN recipe.nutrition.d.sodium
  ELSE IF recipe.yield.s = <<>> THEN Absent ELSE Text

\* no attribute object of the record is null
NoNullObject(recipe) ==
  recipe.times.t # "null" /\ recipe.nutrition.t # "null" /\ recipe.ratings.t # "null"

\* C10: for every numeric bound key, a record that lacks the attribute is
\* compared as if the value were 0: a min_* key with a positive bound rejects
\* the record, and a max_* key with a non-negative bound, alone in the filter
\* set, accepts it.
C10_MissingComparedAsZero ==
  (f_out.op = "_apply_filters" /\ NoNullObject(f_in.recipe)) =>
    \A key \in DOMAIN f_in.filters \cap (min_keys \cup max_keys) :
      Quantity(f_in.recipe, key).t = "absent" =>
        /\ (key \in min_keys /\ f_in.filters[key] > 0) => f_out.outcome = "false"
        /\ (key \in max_keys /\ f_in.filters[key] >= 0 /\ DOMAIN f_in.filters = {key}) =>
             f_out.outcome = "true"

\* C11: filter evaluation never raises on dirty record data: whatever the
\* record holds (a null nutrition object, a sodium value that is no number, a
\* null time value), passes() returns a boolean.
C11_NeverRaisesOnDirtyData ==
  f_out.op = "_apply_filters" => f_out.outcome \in {"true", "false"}

\* C14: the time-only path runs exactly for the non-empty filter sets all of
\* whose keys are among the six time-bound keys, and for such a filter set
\* its check accepts a record exactly when passes() accepts it.
C14_FastPathAgreesWithPasses ==
  f_out.op = "_check_time_filters" =>
    /\ DOMAIN f_in.filters \subseteq
         {"min_total_minutes", "max_total_minutes", "min_prep_minutes",
          "max_prep_minutes", "min_cook_minutes", "max_cook_minutes"}
    /\ (f_out.outcome = "true") <=> (ApplyFiltersTo(f_in.recipe, f_in.filters) = "true")

----------------------------------------------------------------------------
(* Properties of the filter cache *)

\* the key/value pairs of a filter dict
Pairs(filters) == {<<key, filters[key]>> : key \in DOMAIN filters}

\* the cache entries stored for the key/value pairs of a filter dict
EntriesFor(cache, filters) == {entry \in DOMAIN cache : Range(entry) = Pairs(filters)}

\* C15: filter-only results are memoized per filter set.  At every call without
\* query terms and with filters (search_tfidf, search_bm25, get_total_results):
\* the cache never holds two entries for the same key/value pairs; when the
\* cache holds an entry for the pairs of the request, in whatever order they
\* were inserted, the call answers from the stored list, scans nothing and
\* leaves the cache as it is; otherwise the call returns a list and stores it
\* under the pairs of the request, for the later calls.
C15_FilterResultsMemoized ==
  [][(/\ last'.op \in {"search_tfidf", "search_bm25", "get_total_results"}
      /\ request.filters # NoFilters
      /\ tokenize(request.query) = <<>>) =>
       LET before == searcher._filter_cache
           after == searcher'._filter_cache
           stored == EntriesFor(before, request.filters)
       IN /\ \A e1, e2 \in DOMAIN after : Range(e1) = Range(e2) => e1 = e2
          /\ stored # {} =>
               /\ after = before
               /\ ~last'.raised
               /\ \A entry \in stored :
                    IF last'.op = "get_total_results"
                      THEN last'.count = Len(before[entry])
                      ELSE /\ last'.path = "filter_cache"
                           /\ last'.results = before[entry]
                           /\ last'.ret = Page(before[entry], last'.offset, last'.k)
          /\ stored = {} =>
               /\ ~last'.raised
               /\ \E entry \in EntriesFor(after, request.filters) :
                    IF last'.op = "get_total_results"
                      THEN last'.count = Len(after[entry])
                      ELSE last'.path = "filter_only" /\ last'.results = after[entry]
    ]_vars

----------------------------------------------------------------------------
(* Properties of the generic filter-only scan *)

\* the position in doc_metadata of the document with an id
PositionOf(order, n, doc_id) == IF order = "ascending" THEN doc_id ELSE n + 1 - doc_id

----------------------------------------------------------------------------
(* Properties of the crawler's seeds phase *)

\* the digests in seen when call c of deduplicate_urls starts
SeenAtCall(c) ==
  seeds.supplied
    \cup {sha1_url(seeds.sitemaps[d][i]) : <<d, i>> \in
            {<<d, i>> \in (1..(c - 1)) \X (1..MaxUrls) : i <= Len(seeds.sitemaps[d])}}

\* call c has run to the end of its input
CallFinished(c) == c < seeds.call \/ (c = seeds.call /\ seeds.pc # "urls")

\* C27: a finished call of deduplicate_urls has yielded, once each and in order of first
\* occurrence, the URLs of its input whose digest was not in seen when it started; no
\* yielded URL has its digest in the supplied set, and no URL is yielded by two of the calls
\* that share the set
C27_DeduplicateUrls ==
  seeds.pc # "start" =>
    /\ \A c \in 1..Len(seeds.yielded) :
         /\ CallFinished(c) =>
              seeds.yielded[c] =
                Distinct(SelectSeq(seeds.sitemaps[c],
                                   LAMBDA url : sha1_url(url) \notin SeenAtCall(c)))
         /\ \A url \in Range(seeds.yielded[c]) : sha1_url(url) \notin seeds.supplied
    /\ \A c \in 1..Len(seeds.yielded) : \A d \in 1..Len(seeds.yielded) :
         c # d => Range(seeds.yielded[c]) \cap Range(seeds.yielded[d]) = {}

\* two calls have finished; the first input repeats a URL, the second holds a URL of the first
C27_Witness ==
  /\ seeds.pc = "done" /\ Len(seeds.sitemaps) >= 2
  /\ Len(seeds.sitemaps[1]) > Cardinality(Range(seeds.sitemaps[1]))
  /\ Range(seeds.sitemaps[1]) \cap Range(seeds.sitemaps[2]) # {}
  /\ seeds.yielded[2] # <<>>

----------------------------------------------------------------------------
(* Properties of the Frontier *)

\* the sources that have queued tasks
Pending(fr) == {source \in Sources : QueueOf(fr, source) # <<>>}

\* the last call made on the frontier
LastCall(fr) == fr.calls[Len(fr.calls)]

\* C30: a dequeue call returns the oldest queued task of the source it serves, it returns
\* None only when every queue is empty, and when it follows a dequeue call that served a
\* source while another source has queued tasks, it does not serve that source again
C30_DequeueRoundRobin ==
  [][(frontier' # frontier /\ LastCall(frontier').op = "dequeue") =>
       LET task == LastCall(frontier').task
       IN /\ task = None => Pending(frontier) = {}
          /\ task # None => task = Head(QueueOf(frontier, task.source))
          /\ (/\ task # None
              /\ frontier.calls # <<>>
              /\ LastCall(frontier).op = "dequeue"
              /\ LastCall(frontier).task # None
              /\ Pending(frontier) \ {LastCall(frontier).task.source} # {})
               => task.source # LastCall(frontier).task.source]_vars

----------------------------------------------------------------------------
(* Properties of concurrent requests *)

\* the ranked calls among the threads
RankedThreads == {i \in 1..MaxThreads : threads.t[i].call.kind = "ranked"}

\* C29: when all concurrent calls have returned, queries_processed counts the ranked calls,
\* total_results is the sum of their result counts, avg_results_per_query is the quotient
\* of the two, and the filter cache holds for each requested key the list of its scan
C29_ConcurrentCallsLinearizable ==
  (\A i \in 1..MaxThreads : threads.t[i].pc = "done") =>
    /\ threads.stats.queries_processed = Cardinality(RankedThreads)
    /\ threads.stats.total_results =
         SumSeq([i \in 1..MaxThreads |->
                   IF i \in RankedThreads THEN threads.t[i].call.results ELSE 0])
    /\ threads.stats.avg_results_per_query[1] * threads.stats.queries_processed
         = threads.stats.total_results * threads.stats.avg_results_per_query[2]
    /\ DOMAIN threads._filter_cache =
         {threads.t[i].call.key : i \in (1..MaxThreads) \ RankedThreads}
    /\ \A key \in DOMAIN threads._filter_cache : threads._filter_cache[key] = ScanResults(key)

====
